---- MODULE Spec2Model ----
(***************************************************************************)
(* A model of the tabby-utils scripts: the dataset id minting of utils.py, *)
(* the field transformers of load_tabby.py, the enrichment queries of      *)
(* queries.py and the load_tabby.py script run.                            *)
(*                                                                         *)
(* Python values are tagged records, so that isinstance() and `is None`    *)
(* are tests of the tag.  A str whose characters the code looks at is a    *)
(* sequence of one-character strings.  A call's outcome is either a        *)
(* returned value or a raised exception.                                   *)
(***************************************************************************)
EXTENDS Integers, Sequences, FiniteSets, TLC

VARIABLES
    minted,     \* utils.py: the mint_dataset_id call under observation
    calls,      \* utils.py: how many mint_dataset_id calls were made so far
    fn,         \* the function applied last
    arg,        \* its argument
    out,        \* its outcome
    pc,         \* load_tabby.py: the statement the script is at
    args,       \* load_tabby.py: the parsed command line
    compacted,  \* load_tabby.py: the compacted tabby record
    responses,  \* load_tabby.py: the responses its requests get
    meta_item,  \* load_tabby.py: the dataset metadata item
    is_tabby_self,      \* load_tabby.py: self-description flag
    cat_file_listing,   \* load_tabby.py: the file metadata items
    catalog,    \* load_tabby.py: the catalog operations made, in order
    raised      \* load_tabby.py: the exception that ended the script

scriptVars ==
    <<pc, args, compacted, responses, meta_item, is_tabby_self, cat_file_listing,
      catalog, raised>>

vars == <<minted, calls, fn, arg, out, scriptVars>>

(***************************************************************************)
(* Bounds of the model.                                                    *)
(***************************************************************************)
MaxNameLen == 2
MaxProjectLen == 2
MaxProjects == 2
MaxCalls == 3
MaxItems == 2
MaxUrlParts == 3

(***************************************************************************)
(* Python values and outcomes.                                             *)
(***************************************************************************)
None == [t |-> "NoneType"]
Str(s) == [t |-> "str", v |-> s]
List(l) == [t |-> "list", v |-> l]
Dict(d) == [t |-> "dict", v |-> d]
Bool(b) == [t |-> "bool", v |-> b]

Return(v) == [kind |-> "return", value |-> v]
Raise(e) == [kind |-> "raise", exc |-> e]
Idle == [kind |-> "idle"]

IsNone(x) == x.t = "NoneType"
IsStr(x) == x.t = "str"
IsList(x) == x.t = "list"
IsDict(x) == x.t = "dict"

\* Sequences over S of length lo..hi.
SeqsOf(S, lo, hi) == UNION {[1..n -> S] : n \in lo..hi}

(***************************************************************************)
(* str methods, on sequences of characters.                                *)
(***************************************************************************)
UpperLetters ==
    <<"A", "B", "C", "D", "E", "F", "G", "H", "I", "J", "K", "L", "M",
      "N", "O", "P", "Q", "R", "S", "T", "U", "V", "W", "X", "Y", "Z">>
LowerLetters ==
    <<"a", "b", "c", "d", "e", "f", "g", "h", "i", "j", "k", "l", "m",
      "n", "o", "p", "q", "r", "s", "t", "u", "v", "w", "x", "y", "z">>

LowerChar(c) ==
    IF \E i \in 1..26 : UpperLetters[i] = c
    THEN LowerLetters[CHOOSE i \in 1..26 : UpperLetters[i] = c]
    ELSE c

UpperChar(c) ==
    IF \E i \in 1..26 : LowerLetters[i] = c
    THEN UpperLetters[CHOOSE i \in 1..26 : LowerLetters[i] = c]
    ELSE c

\* s.lower(), s.upper()
Lower(s) == [i \in 1..Len(s) |-> LowerChar(s[i])]
Upper(s) == [i \in 1..Len(s) |-> UpperChar(s[i])]

\* s.startswith(p)
StartsWith(s, p) == Len(p) <= Len(s) /\ SubSeq(s, 1, Len(p)) = p

(***************************************************************************)
(* utils.py                                                                *)
(***************************************************************************)
\* A UUID is the chain of names hashed from the root namespace: uuid5 is
\* SHA-1 of namespace and name, taken as free of collisions.
NAMESPACE_DNS == << <<"d", "n", "s">> >>
uuid5(namespace, name) == Append(namespace, name)
\* str(uuid)
UuidStr(u) == [t |-> "str", uuid |-> u]

\* str(v) as str.format renders a field
FormatValue(v) ==
    IF IsStr(v) THEN v.v
    ELSE IF IsNone(v) THEN <<"N", "o", "n", "e">>
    ELSE <<"?">>

\* A format string is a sequence of literal pieces and replacement fields.
Lit(text) == [kind |-> "lit", text |-> text]
Field(key) == [kind |-> "field", key |-> key]

\* fmt.format(**input), from piece i on
RECURSIVE FormatFrom(_, _, _)
FormatFrom(fmt, input, i) ==
    IF i > Len(fmt) THEN <<>>
    ELSE (IF fmt[i].kind = "lit" THEN fmt[i].text
          ELSE FormatValue(input[fmt[i].key]))
         \o FormatFrom(fmt, input, i + 1)

Format(fmt, input) == FormatFrom(fmt, input, 1)

\* "{dataset_id}", the default of config.get("dataset_id_fmt", ...)
DefaultDatasetIdFmt == <<Field("dataset_id")>>

\* get_dataset_id(input, config)
get_dataset_id(input, config) ==
    LET fmt == IF "dataset_id_fmt" \in DOMAIN config
               THEN config["dataset_id_fmt"]
               ELSE DefaultDatasetIdFmt
        raw_id == Format(fmt, input)
    IN UuidStr(uuid5(uuid5(NAMESPACE_DNS,
                           <<"d", "a", "t", "a", "l", "a", "d", ".", "o", "r", "g">>),
                     raw_id))

\* "sfb1451.{project}.{name}"
SfbDatasetIdFmt ==
    <<Lit(<<"s", "f", "b", "1", "4", "5", "1", ".">>), Field("project"),
      Lit(<<".">>), Field("name")>>

\* A time- or counter-based id (uuid1/uuid4 in place of uuid5): the hashed
\* string also carries the number of calls made so far.
mint_dataset_id_counter(ds_name, project) ==
    LET p == IF IsList(project) THEN Lower(project.v[1].v) ELSE Lower(project.v)
        tick == [i \in 1..calls |-> "#"]
        dsid_input == [name |-> ds_name, project |-> Str(p \o tick)]
        dsid_config == [dataset_id_fmt |-> SfbDatasetIdFmt]
    IN Return(get_dataset_id(dsid_input, dsid_config))

\* project[0].lower() without the isinstance test: of a str project only
\* its first character is used.
mint_dataset_id_first(ds_name, project) ==
    LET p == IF IsList(project) THEN Lower(project.v[1].v)
             ELSE Lower(<<project.v[1]>>)
        dsid_input == [name |-> ds_name, project |-> Str(p)]
        dsid_config == [dataset_id_fmt |-> SfbDatasetIdFmt]
    IN Return(get_dataset_id(dsid_input, dsid_config))

\* The docstring's prefix, "sfb151.", in place of the code's.
mint_dataset_id_docstring(ds_name, project) ==
    LET p == IF IsList(project) THEN Lower(project.v[1].v) ELSE Lower(project.v)
        dsid_input == [name |-> ds_name, project |-> Str(p)]
        dsid_config ==
            [dataset_id_fmt |->
                <<Lit(<<"s", "f", "b", "1", "5", "1", ".">>), Field("project"),
                  Lit(<<".">>), Field("name")>>]
    IN Return(get_dataset_id(dsid_input, dsid_config))

\* mint_dataset_id(ds_name, project)
mint_dataset_id(ds_name, project) ==
    IF IsList(project) /\ Len(project.v) = 0 THEN Raise("IndexError")
    ELSE IF IsList(project) /\ ~IsStr(project.v[1]) THEN Raise("AttributeError")
    ELSE IF ~IsList(project) /\ ~IsStr(project) THEN Raise("AttributeError")
    ELSE
        LET dsid_input ==
                [name |-> ds_name,
                 project |-> Str(IF IsList(project)
                                 THEN Lower(project.v[1].v)
                                 ELSE Lower(project.v))]
            dsid_config == [dataset_id_fmt |-> SfbDatasetIdFmt]
        IN Return(get_dataset_id(dsid_input, dsid_config))

(***************************************************************************)
(* The inputs of mint_dataset_id.                                          *)
(***************************************************************************)
NameChars == {"N", "."}
ProjectChars == {"p", "P", "."}
\* The single projects a list of projects is made of.
ListedProjects == {Str(<<"P">>), Str(<<"q">>)}

DatasetNames == {Str(s) : s \in SeqsOf(NameChars, 1, MaxNameLen)}
ProjectStrs == {Str(s) : s \in SeqsOf(ProjectChars, 1, MaxProjectLen)}
ProjectLists == {List(l) : l \in SeqsOf(ListedProjects, 1, MaxProjects)}

NoCall == [kind |-> "nocall"]

IdleCall == fn = "none" /\ arg = None /\ out = Idle

\* load_tabby.py not run
NoScript ==
    /\ pc = "none"
    /\ args = None
    /\ compacted = None
    /\ responses = None
    /\ meta_item = None
    /\ is_tabby_self = FALSE
    /\ cat_file_listing = <<>>
    /\ catalog = <<>>
    /\ raised = None

\* A call whose id is kept for comparison.
MintCall(n, p) ==
    /\ calls < MaxCalls
    /\ minted = NoCall
    /\ minted' = [kind |-> "call", name |-> n, project |-> p,
                  out |-> mint_dataset_id(n, p), again |-> Idle]
    /\ calls' = calls + 1
    /\ UNCHANGED <<fn, arg, out, scriptVars>>

\* A call for some dataset, made before or in between.
MintOther(n, p) ==
    /\ calls < MaxCalls
    /\ mint_dataset_id(n, p).kind = "return"
    /\ calls' = calls + 1
    /\ UNCHANGED <<minted, fn, arg, out, scriptVars>>

\* The observed call made once more, with the same name and project.
MintAgain ==
    /\ calls < MaxCalls
    /\ minted.kind = "call"
    /\ minted' = [minted EXCEPT !.again = mint_dataset_id(minted.name, minted.project)]
    /\ calls' = calls + 1
    /\ UNCHANGED <<fn, arg, out, scriptVars>>

InitMint == minted = NoCall /\ calls = 0 /\ IdleCall /\ NoScript

NextMint ==
    \/ \E n \in DatasetNames, p \in ProjectStrs : MintCall(n, p)
    \/ \E n \in DatasetNames, p \in ProjectLists : MintCall(n, p)
    \/ \E n \in DatasetNames, p \in ProjectLists : MintOther(n, p)
    \/ MintAgain

SpecMint == InitMint /\ [][NextMint]_vars

MintInputs == DatasetNames \X (ProjectStrs \cup ProjectLists)

\* C2 as stated: any other (name, project) pair gets another id.
C2_MintInjective ==
    minted.kind = "call" =>
        \A i \in MintInputs :
            (i[1] # minted.name \/ i[2] # minted.project)
                => mint_dataset_id(i[1], i[2]) # minted.out

\* lowercase(first project) + "." + name
C2_Key(n, p) ==
    Lower(IF IsList(p) THEN p.v[1].v ELSE p.v) \o <<".">> \o n.v

\* C2 amended: two pairs get different ids whenever
\* lowercase(first project) + "." + name differs between them; that is,
\* a pair that gets the id of another has the same key.
C2_MintDistinctKeys ==
    minted.kind = "call" =>
        \A i \in MintInputs :
            mint_dataset_id(i[1], i[2]) = minted.out
                => C2_Key(i[1], i[2]) = C2_Key(minted.name, minted.project)

\* C2 witness: a minted pair that some other pair shares its id with (the
\* project differing in case only) while further pairs get another id.
C2_Witness ==
    /\ minted.kind = "call"
    /\ minted.project = Str(<<"P", ".">>)
    /\ mint_dataset_id(minted.name, Str(<<"p", ".">>)) = minted.out
    /\ mint_dataset_id(minted.name, Str(<<"p">>)) # minted.out

DictGet(d, k, default) == IF k \in DOMAIN d.v THEN d.v[k] ELSE default

\* d[k] = v, on the mapping of a dict
DictSet(f, k, v) == [x \in (DOMAIN f) \cup {k} |-> IF x = k THEN v ELSE f[x]]

\* d.pop(k, None), the mapping left
DictDel(f, k) == [x \in (DOMAIN f) \ {k} |-> f[x]]

\* bool(x)
Truthy(x) ==
    CASE x.t = "NoneType" -> FALSE
      [] x.t = "bool" -> x.v
      [] x.t = "str" -> Len(x.v) > 0
      [] x.t = "list" -> Len(x.v) > 0
      [] x.t = "dict" -> DOMAIN x.v # {}
      [] x.t = "int" -> x.v # 0
      [] OTHER -> TRUE

\* A key a dict does not have, when dicts are enumerated.
Absent == [t |-> "absent"]

\* The dict of the <<key, value>> pairs whose value is not Absent.
MkDict(pairs) ==
    Dict([k \in {pairs[i][1] : i \in {j \in 1..Len(pairs) : pairs[j][2] # Absent}}
            |-> pairs[CHOOSE i \in 1..Len(pairs) : pairs[i][1] = k][2]])

\* The first raised exception of a sequence of outcomes, or the list of
\* their values: a list comprehension over calls.
ListOfOutcomes(os) ==
    IF \E i \in 1..Len(os) : os[i].kind = "raise"
    THEN os[CHOOSE i \in 1..Len(os) :
                /\ os[i].kind = "raise"
                /\ \A j \in 1..(i - 1) : os[j].kind # "raise"]
    ELSE Return(List([i \in 1..Len(os) |-> os[i].value]))

\* s.find(c) for a character c, counted from 1; 0 when absent
Find(s, c) ==
    IF \E i \in 1..Len(s) : s[i] = c
    THEN CHOOSE i \in 1..Len(s) : s[i] = c /\ \A j \in 1..(i - 1) : s[j] # c
    ELSE 0

\* s.rfind(c), counted from 1; 0 when absent
RFind(s, c) ==
    IF \E i \in 1..Len(s) : s[i] = c
    THEN CHOOSE i \in 1..Len(s) : s[i] = c /\ \A j \in (i + 1)..Len(s) : s[j] # c
    ELSE 0

\* s.rpartition(c): <<head, sep, tail>>
RPartition(s, c) ==
    LET i == RFind(s, c)
    IN IF i = 0 THEN <<(<<>>), (<<>>), s>>
       ELSE <<SubSeq(s, 1, i - 1), <<c>>, SubSeq(s, i + 1, Len(s))>>

\* s.replace(old, new), from position i on
RECURSIVE ReplaceFrom(_, _, _, _)
ReplaceFrom(s, old, new, i) ==
    IF i > Len(s) THEN <<>>
    ELSE IF i + Len(old) - 1 <= Len(s) /\ SubSeq(s, i, i + Len(old) - 1) = old
    THEN new \o ReplaceFrom(s, old, new, i + Len(old))
    ELSE <<s[i]>> \o ReplaceFrom(s, old, new, i + 1)

Replace(s, old, new) == ReplaceFrom(s, old, new, 1)

(***************************************************************************)
(* urllib.parse.urlparse, on the URLs of the model (no params, no          *)
(* closing bracket, ASCII only).                                           *)
(***************************************************************************)
Digits == {"0", "1", "2", "3", "4", "5", "6", "7", "8", "9"}
IsAlpha(c) == \E i \in 1..26 : UpperLetters[i] = c \/ LowerLetters[i] = c
IsSchemeChar(c) == IsAlpha(c) \/ c \in Digits \/ c \in {"+", "-", "."}

\* The first position from `start` on that holds one of `cs`, else Len(s) + 1.
FindAny(s, cs, start) ==
    IF \E i \in start..Len(s) : s[i] \in cs
    THEN CHOOSE i \in start..Len(s) :
            s[i] \in cs /\ \A j \in start..(i - 1) : s[j] \notin cs
    ELSE Len(s) + 1

urlparse(url) ==
    LET i == Find(url, ":")
        hasScheme ==
            /\ i > 1
            /\ IsAlpha(url[1])
            /\ \A j \in 1..(i - 1) : IsSchemeChar(url[j])
        scheme == IF hasScheme THEN Lower(SubSeq(url, 1, i - 1)) ELSE <<>>
        rest == IF hasScheme THEN SubSeq(url, i + 1, Len(url)) ELSE url
        hasNetloc == Len(rest) >= 2 /\ rest[1] = "/" /\ rest[2] = "/"
        delim == FindAny(rest, {"/", "?", "#"}, 3)
        netloc == IF hasNetloc THEN SubSeq(rest, 3, delim - 1) ELSE <<>>
        tail == IF hasNetloc THEN SubSeq(rest, delim, Len(rest)) ELSE rest
        path == SubSeq(tail, 1, FindAny(tail, {"?", "#"}, 1) - 1)
    IN IF hasNetloc /\ ((Find(netloc, "[") > 0) # (Find(netloc, "]") > 0))
       THEN Raise("ValueError")   \* Invalid IPv6 URL
       ELSE Return([scheme |-> scheme, netloc |-> netloc, path |-> path])

(***************************************************************************)
(* load_tabby.py: the field transformers.                                  *)
(***************************************************************************)
known_keys ==
    {"name", "email", "identifiers", "givenName", "familyName", "honorificSuffix"}

OrcidIdentifier(orcid) ==
    Dict([name |-> Str(<<"O", "R", "C", "I", "D">>), identifier |-> orcid])

\* The loop body with the ORCID appended to the identifiers the author
\* has, instead of replacing them.
process_author_append(author) ==
    LET d == [k \in {k \in DOMAIN author.v :
                        k \in known_keys /\ ~IsNone(author.v[k])}
                |-> author.v[k]]
        orcid == DictGet(author, "orcid", Bool(FALSE))
        had == IF "identifiers" \in DOMAIN d /\ IsList(d["identifiers"])
               THEN d["identifiers"].v ELSE <<>>
    IN Dict(IF Truthy(orcid)
            THEN DictSet(d, "identifiers", List(Append(had, OrcidIdentifier(orcid))))
            ELSE d)

\* The body of the loop of process_authors, for one author.
process_author(author) ==
    LET d == [k \in {k \in DOMAIN author.v :
                        k \in known_keys /\ ~IsNone(author.v[k])}
                |-> author.v[k]]
        orcid == DictGet(author, "orcid", Bool(FALSE))
    IN Dict(IF Truthy(orcid)
            THEN DictSet(d, "identifiers", List(<<OrcidIdentifier(orcid)>>))
            ELSE d)

process_authors(authors) ==
    IF IsNone(authors) THEN Return(None)
    ELSE LET l == IF IsDict(authors) THEN <<authors>> ELSE authors.v
         IN Return(List([i \in 1..Len(l) |-> process_author(l[i])]))

process_license(license) ==
    IF IsNone(license) THEN Return(None)
    ELSE IF urlparse(license.v).kind = "raise" THEN urlparse(license.v)
    ELSE Return(Dict([name |-> license, url |-> license]))

process_doi(doi) ==
    IF IsNone(doi) THEN Return(None)
    ELSE Return(IF StartsWith(doi.v, <<"h", "t", "t", "p">>) THEN doi
                ELSE Str(<<"h", "t", "t", "p", "s", ":", "/", "/", "d", "o", "i", ".", "o", "r", "g", "/">> \o doi.v))

\* process_keywords without the isinstance test: the keywords always wrapped
process_keywords_wrap(keywords) ==
    Return(List(<<keywords>>))

process_keywords(keywords) ==
    Return(IF IsStr(keywords) THEN List(<<keywords>>) ELSE keywords)

\* The SFB1451 main grant
SfbMainGrant ==
    Dict(("@type" :> Str(<<"h", "t", "t", "p", "s", ":", "/", "/", "s", "c", "h", "e", "m", "a", ".", "o", "r", "g", "/", "G", "r", "a", "n", "t">>))
         @@ [funder |-> Str(<<"D", "e", "u", "t", "s", "c", "h", "e", " ", "F", "o", "r", "s", "c", "h", "u", "n", "g", "s", "g", "e", "m", "e", "i", "n", "s", "c", "h", "a", "f", "t", " ", "(", "D", "F", "G", ")">>),
             name |-> Str(<<"S", "F", "B", " ", "1", "4", "5", "1", ":", " ", "K", "e", "y", " ", "m", "e", "c", "h", "a", "n", "i", "s", "m", "s", " ", "o", "f", " ", "m", "o", "t", "o", "r", " ", "c", "o", "n", "t", "r", "o", "l", " ", "i", "n", " ", "h", "e", "a", "l", "t", "h", " ", "a", "n", "d", " ", "d", "i", "s", "e", "a", "s", "e">>),
             identifier |-> Str(<<"h", "t", "t", "p", "s", ":", "/", "/", "g", "e", "p", "r", "i", "s", ".", "d", "f", "g", ".", "d", "e", "/", "g", "e", "p", "r", "i", "s", "/", "p", "r", "o", "j", "e", "k", "t", "/", "4", "3", "1", "5", "4", "9", "0", "2", "9">>)])

\* The body of the loop of process_funding, for one funding entry f: the
\* grants it appends to grant_list, in order.
process_grant(f, lookup) ==
    LET type == DictGet(f, "@type", Str(<<>>))
        grant == DictSet(f.v, "@type",
                         Str(Replace(type.v, <<"s", "c", "h", "e", "m", "a", ":">>, <<"h", "t", "t", "p", "s", ":", "/", "/", "s", "c", "h", "e", "m", "a", ".", "o", "r", "g", "/">>)))
        identifier == DictGet(f, "identifier", None)
        dfg == DictSet(grant, "funder", Str(<<"D", "e", "u", "t", "s", "c", "h", "e", " ", "F", "o", "r", "s", "c", "h", "u", "n", "g", "s", "g", "e", "m", "e", "i", "n", "s", "c", "h", "a", "f", "t", " ", "(", "D", "F", "G", ")">>))
        parts == RPartition(identifier.v, "-")
        project == parts[1]
        subproject == parts[3]
    IN IF ~IsStr(type) THEN Raise("AttributeError")
       ELSE IF DictGet(f, "funder", None) # Str(<<"D", "F", "G">>) THEN Return(<<Dict(grant)>>)
       ELSE IF ~IsStr(identifier) THEN Raise("AttributeError")
       ELSE IF ~StartsWith(identifier.v, <<"4", "3", "1", "5", "4", "9", "0", "2", "9", "-">>)
       THEN \* DFG but not SFB1451, only edit identifier
            Return(<<Dict(DictSet(dfg, "identifier",
                        Str(<<"h", "t", "t", "p", "s", ":", "/", "/", "g", "e", "p", "r", "i", "s", ".", "d", "f", "g", ".", "d", "e", "/", "g", "e", "p", "r", "i", "s", "/", "p", "r", "o", "j", "e", "k", "t", "/">> \o identifier.v)))>>)
       ELSE IF Upper(subproject) \in DOMAIN lookup
       THEN LET gepris_info == lookup[Upper(subproject)]
            IN Return(<<SfbMainGrant,
                        Dict([isPartOf |->
                                Str(<<"h", "t", "t", "p", "s", ":", "/", "/", "g", "e", "p", "r", "i", "s", ".", "d", "f", "g", ".", "d", "e", "/", "g", "e", "p", "r", "i", "s", "/", "p", "r", "o", "j", "e", "k", "t", "/">> \o project),
                              alternateName |-> Str(Upper(subproject)),
                              identifier |-> gepris_info.v["identifier"],
                              name |-> gepris_info.v["name"]] @@ dfg)>>)
       ELSE Return(<<SfbMainGrant>>)

\* The concatenation of a sequence of sequences.
RECURSIVE Flatten(_)
Flatten(ss) == IF Len(ss) = 0 THEN <<>> ELSE Head(ss) \o Flatten(Tail(ss))

process_funding(funding, lookup) ==
    IF IsNone(funding) THEN Raise("TypeError")   \* None is not iterable
    ELSE LET l == IF IsDict(funding) THEN <<funding>> ELSE funding.v
             gs == [i \in 1..Len(l) |-> process_grant(l[i], lookup)]
         IN IF \E i \in 1..Len(gs) : gs[i].kind = "raise"
            THEN gs[CHOOSE i \in 1..Len(gs) :
                        /\ gs[i].kind = "raise"
                        /\ \A j \in 1..(i - 1) : gs[j].kind # "raise"]
            ELSE Return(List(Flatten([i \in 1..Len(gs) |-> gs[i].value])))

process_arc(data_controller) ==
    IF IsNone(data_controller) THEN Return(None)
    ELSE IF IsList(data_controller) /\ Len(data_controller.v) = 0
    THEN Raise("IndexError")
    ELSE LET dc == IF IsList(data_controller) THEN data_controller.v[1]
                   ELSE data_controller
             name == DictGet(dc, "name", Str(<<>>))
             email == DictGet(dc, "email", Str(<<>>))
             parts == RPartition(name.v, " ")
         IN IF ~IsStr(name) THEN Raise("AttributeError")
            ELSE Return(Dict([givenName |-> Str(parts[1]),
                              familyName |-> Str(parts[3]),
                              email |-> email]))

\* process_data_controller, of one controller
process_data_controller_one(data_controller) ==
    IF IsNone(data_controller) THEN None
    ELSE Dict(data_controller.v @@ ("@type" :> Str(<<"h", "t", "t", "p", "s", ":", "/", "/", "s", "c", "h", "e", "m", "a", ".", "o", "r", "g", "/", "P", "e", "r", "s", "o", "n">>)))

process_data_controller(data_controller) ==
    IF IsNone(data_controller) THEN Return(None)
    ELSE IF IsList(data_controller)
    THEN Return(List([i \in 1..Len(data_controller.v) |->
                        process_data_controller_one(data_controller.v[i])]))
    ELSE Return(process_data_controller_one(data_controller))

\* sep.join(strs)
RECURSIVE Join(_, _)
Join(sep, strs) ==
    IF Len(strs) = 0 THEN <<>>
    ELSE IF Len(strs) = 1 THEN strs[1].v
    ELSE strs[1].v \o sep \o Join(sep, Tail(strs))

\* process_used_for, of one activity
process_used_for_one(activity) ==
    IF IsNone(activity) THEN None
    ELSE LET url == DictGet(activity, "url", Bool(FALSE))
             description == DictGet(activity, "description", Bool(FALSE))
             thing == ("@type" :> Str(<<"h", "t", "t", "p", "s", ":", "/", "/", "s", "c", "h", "e", "m", "a", ".", "o", "r", "g", "/", "T", "h", "i", "n", "g">>))
                      @@ [name |-> DictGet(activity, "title", Str(<<>>))]
             withUrl == IF Truthy(url) THEN DictSet(thing, "url", url) ELSE thing
         IN Dict(IF Truthy(description)
                 THEN DictSet(withUrl, "description",
                              IF IsList(description)
                              THEN Str(Join(<<"\n", "\n">>, description.v))
                              ELSE description)
                 ELSE withUrl)

process_used_for(activity) ==
    IF IsList(activity)
    THEN Return(List([i \in 1..Len(activity.v) |-> process_used_for_one(activity.v[i])]))
    ELSE Return(process_used_for_one(activity))

\* process_homepage, of one homepage
process_homepage_one(homepage) ==
    IF IsNone(homepage) THEN None
    ELSE Dict(("@type" :> Str(<<"h", "t", "t", "p", "s", ":", "/", "/", "s", "c", "h", "e", "m", "a", ".", "o", "r", "g", "/", "U", "R", "L">>)) @@ ("@value" :> homepage))

process_homepage(homepage) ==
    IF IsNone(homepage) THEN Return(None)
    ELSE IF IsList(homepage)
    THEN Return(List([i \in 1..Len(homepage.v) |-> process_homepage_one(homepage.v[i])]))
    ELSE Return(process_homepage_one(homepage))

known_locations ==
    {<<"g", "i", "n", ".", "g", "-", "n", "o", "d", "e", ".", "o", "r", "g">>, <<"g", "i", "t", "h", "u", "b", ".", "c", "o", "m">>, <<"g", "i", "t", "l", "a", "b", ".", "c", "o", "m">>, <<"j", "u", "g", "i", "t", ".", "f", "z", "-", "j", "u", "e", "l", "i", "c", "h", ".", "d", "e">>}

\* The homepages of a list which can serve as a clone URL.
IsCloneUrl(hp) ==
    LET hp_parsed == urlparse(hp.v).value
    IN hp_parsed.netloc \in known_locations /\ hp_parsed.path # <<>>

process_homepage_as_url(homepage) ==
    IF IsNone(homepage) THEN Return(None)
    ELSE LET l == IF IsStr(homepage) THEN <<homepage>> ELSE homepage.v
         IN IF \E i \in 1..Len(l) : urlparse(l[i].v).kind = "raise"
            THEN Raise("ValueError")
            ELSE LET url == SelectSeq(l, IsCloneUrl)
                 IN Return(IF Len(url) > 0 THEN List(url) ELSE None)

(***************************************************************************)
(* The inputs of the field transformers.                                   *)
(***************************************************************************)
\* The pieces the URL-like strings of the model are made of.
UrlParts == {<<"h", "t", "t", "p", "s", ":">>, <<"/", "/">>, <<"g", "i", "t", "h", "u", "b", ".", "c", "o", "m">>, <<"e", "x", "a", "m", "p", "l", "e", ".", "o", "r", "g">>, <<"/", "d", "s">>, <<"[">>}
UrlStrs == {Str(Flatten(ps)) : ps \in SeqsOf(UrlParts, 0, MaxUrlParts)}

OtherIdentifier ==
    Dict([name |-> Str(<<"R", "e", "s", "e", "a", "r", "c", "h", "e", "r", "I", "D">>), identifier |-> Str(<<"R", "-", "1">>)])

\* Author dicts, as tabby gives them (orcid) and as already normalized
\* (identifiers carrying the one ORCID entry process_authors writes).
AuthorDicts ==
    {MkDict(<<<<"name", n>>, <<"email", e>>, <<"orcid", o>>,
              <<"identifiers", i>>, <<"@type", t>>>>) :
        n \in {Absent, None, Str(<<"A", "n", "n", " ", "L", "e", "e">>)},
        e \in {Absent, Str(<<"a", "@", "x", ".", "o", "r", "g">>)},
        o \in {Absent, None, Str(<<>>), Str(<<"0", "0", "0", "0", "-", "1">>), Str(<<"0", "0", "0", "0", "-", "2">>)},
        i \in {Absent, None, List(<<>>),
               List(<<OrcidIdentifier(Str(<<"0", "0", "0", "0", "-", "1">>))>>),
               List(<<OtherIdentifier>>),
               List(<<OtherIdentifier, OrcidIdentifier(Str(<<"0", "0", "0", "0", "-", "1">>))>>)},
        t \in {Absent, Str(<<"s", "c", "h", "e", "m", "a", ":", "P", "e", "r", "s", "o", "n">>)}}

\* The authors lists are made of.
ListedAuthors ==
    {MkDict(<<<<"name", Str(<<"A", "n", "n", " ", "L", "e", "e">>)>>, <<"orcid", Str(<<"0", "0", "0", "0", "-", "2">>)>>,
              <<"identifiers", List(<<OrcidIdentifier(Str(<<"0", "0", "0", "0", "-", "1">>))>>)>>>>),
     MkDict(<<<<"name", Str(<<"B", "o">>)>>, <<"email", None>>, <<"@type", Str(<<"s", "c", "h", "e", "m", "a", ":", "P", "e", "r", "s", "o", "n">>)>>>>),
     MkDict(<<<<"name", Str(<<"C", "y">>)>>,
              <<"identifiers", List(<<OrcidIdentifier(Str(<<"0", "0", "0", "0", "-", "1">>))>>)>>>>)}
AuthorLists == {List(l) : l \in SeqsOf(ListedAuthors, 0, MaxItems)}

FundingDicts ==
    {MkDict(<<<<"funder", f>>, <<"identifier", i>>, <<"@type", t>>, <<"name", n>>>>) :
        f \in {Absent, Str(<<"D", "F", "G">>), Str(<<"E", "R", "C">>)},
        i \in {Absent, Str(<<"4", "3", "1", "5", "4", "9", "0", "2", "9", "-", "a", "0", "1">>), Str(<<"4", "3", "1", "5", "4", "9", "0", "2", "9", "-", "Z", "0", "2">>),
               Str(<<"4", "3", "1", "5", "4", "9", "0", "2", "9">>), Str(<<"1", "2", "-", "3">>)},
        t \in {Absent, None, Str(<<"s", "c", "h", "e", "m", "a", ":", "G", "r", "a", "n", "t">>)},
        n \in {Absent, Str(<<"G">>)}}
ListedFunding ==
    {MkDict(<<<<"funder", Str(<<"D", "F", "G">>)>>, <<"identifier", Str(<<"4", "3", "1", "5", "4", "9", "0", "2", "9", "-", "a", "0", "1">>)>>,
              <<"@type", Str(<<"s", "c", "h", "e", "m", "a", ":", "G", "r", "a", "n", "t">>)>>>>),
     MkDict(<<<<"funder", Str(<<"D", "F", "G">>)>>, <<"identifier", Str(<<"1", "2", "-", "3">>)>>>>),
     MkDict(<<<<"funder", Str(<<"E", "R", "C">>)>>, <<"name", Str(<<"G">>)>>>>)}
FundingLists == {List(l) : l \in SeqsOf(ListedFunding, 0, MaxItems)}

\* The lookup table of lookup_tables.toml: SFB project -> name, identifier
GrantLut ==
    (<<"A", "0", "1">> :> Dict([name |-> Str(<<"P", "r", "o", "j", "e", "c", "t", " ", "A", "0", "1">>),
                     identifier |-> Str(<<"h", "t", "t", "p", "s", ":", "/", "/", "g", "e", "p", "r", "i", "s", ".", "d", "f", "g", ".", "d", "e", "/", "g", "e", "p", "r", "i", "s", "/", "p", "r", "o", "j", "e", "k", "t", "/", "1">>)]))
\* lookup={}, the default
EmptyLut == [k \in {} |-> None]

ControllerDicts ==
    {MkDict(<<<<"name", n>>, <<"email", e>>, <<"@type", t>>>>) :
        n \in {Absent, None, Str(<<"A", "n", "n">>), Str(<<"A", "n", "n", " ", "v", "a", "n", " ", "L", "e", "e">>)},
        e \in {Absent, Str(<<"a", "@", "x", ".", "o", "r", "g">>)},
        t \in {Absent, Str(<<"s", "c", "h", "e", "m", "a", ":", "O", "r", "g", "a", "n", "i", "z", "a", "t", "i", "o", "n">>)}}
ListedControllers ==
    {MkDict(<<<<"name", Str(<<"A", "n", "n", " ", "v", "a", "n", " ", "L", "e", "e">>)>>, <<"email", Str(<<"a", "@", "x", ".", "o", "r", "g">>)>>>>),
     MkDict(<<<<"name", Str(<<"B", "o">>)>>>>)}
ControllerLists == {List(l) : l \in SeqsOf(ListedControllers, 0, MaxItems)}

ActivityDicts ==
    {MkDict(<<<<"title", t>>, <<"url", u>>, <<"description", d>>>>) :
        t \in {Absent, Str(<<"T">>)},
        u \in {Absent, Str(<<>>), Str(<<"h", "t", "t", "p", "s", ":", "/", "/", "e", "x", "a", "m", "p", "l", "e", ".", "o", "r", "g">>)},
        d \in {Absent, Str(<<"d">>), List(<<Str(<<"d">>), Str(<<"e">>)>>)}}
ListedActivities ==
    {MkDict(<<<<"title", Str(<<"T">>)>>, <<"description", List(<<Str(<<"d">>), Str(<<"e">>)>>)>>>>),
     MkDict(<<<<"url", Str(<<"h", "t", "t", "p", "s", ":", "/", "/", "e", "x", "a", "m", "p", "l", "e", ".", "o", "r", "g">>)>>>>)}
ActivityLists == {List(l) : l \in SeqsOf(ListedActivities, 0, MaxItems)}

ListedHomepages ==
    {Str(<<"h", "t", "t", "p", "s", ":", "/", "/", "g", "i", "t", "h", "u", "b", ".", "c", "o", "m", "/", "d", "s">>), Str(<<"h", "t", "t", "p", "s", ":", "/", "/", "g", "i", "t", "h", "u", "b", ".", "c", "o", "m">>),
     Str(<<"h", "t", "t", "p", "s", ":", "/", "/", "e", "x", "a", "m", "p", "l", "e", ".", "o", "r", "g", "/", "d", "s">>), Str(<<"h", "t", "t", "p", "s", ":", "/", "/", "g", "i", "n", ".", "g", "-", "n", "o", "d", "e", ".", "o", "r", "g", "/", "d", "s">>),
     Str(<<"h", "t", "t", "p", "s", ":", "/", "/", "g", "i", "t", "l", "a", "b", ".", "c", "o", "m", "/", "d", "s">>),
     Str(<<"/", "/", "[">>)}
HomepageLists == {List(l) : l \in SeqsOf(ListedHomepages, 0, MaxItems)}

KeywordStrs == {Str(<<"a">>), Str(<<"b">>), Str(<<>>)}
KeywordLists == {List(l) : l \in SeqsOf(KeywordStrs, 0, MaxItems)}

DoiStrs ==
    {Str(<<"1", "0", ".", "1", "/", "x">>), Str(<<"h", "t", "t", "p", "s", ":", "/", "/", "d", "o", "i", ".", "o", "r", "g", "/", "1", "0", ".", "1", "/", "x">>), Str(<<"h", "t", "t", "p", ":", "/", "/", "d", "x", ".", "d", "o", "i", ".", "o", "r", "g", "/", "1", "0", ".", "1", "/", "x">>),
     Str(<<"d", "o", "i", ":", "1", "0", ".", "1", "/", "x">>), Str(<<>>)}

(***************************************************************************)
(* One action per field transformer: a call of it on a tabby field.       *)
(***************************************************************************)
ProcessAuthors(a) ==
    /\ fn = "none"
    /\ fn' = "process_authors"
    /\ arg' = a
    /\ out' = process_authors(a)
    /\ UNCHANGED <<minted, calls, scriptVars>>

ProcessLicense(a) ==
    /\ fn = "none"
    /\ fn' = "process_license"
    /\ arg' = a
    /\ out' = process_license(a)
    /\ UNCHANGED <<minted, calls, scriptVars>>

ProcessDoi(a) ==
    /\ fn = "none"
    /\ fn' = "process_doi"
    /\ arg' = a
    /\ out' = process_doi(a)
    /\ UNCHANGED <<minted, calls, scriptVars>>

ProcessKeywords(a) ==
    /\ fn = "none"
    /\ fn' = "process_keywords"
    /\ arg' = a
    /\ out' = process_keywords(a)
    /\ UNCHANGED <<minted, calls, scriptVars>>

ProcessFunding(a, lookup) ==
    /\ fn = "none"
    /\ fn' = "process_funding"
    /\ arg' = [funding |-> a, lookup |-> lookup]
    /\ out' = process_funding(a, lookup)
    /\ UNCHANGED <<minted, calls, scriptVars>>

ProcessArc(a) ==
    /\ fn = "none"
    /\ fn' = "process_arc"
    /\ arg' = a
    /\ out' = process_arc(a)
    /\ UNCHANGED <<minted, calls, scriptVars>>

ProcessDataController(a) ==
    /\ fn = "none"
    /\ fn' = "process_data_controller"
    /\ arg' = a
    /\ out' = process_data_controller(a)
    /\ UNCHANGED <<minted, calls, scriptVars>>

ProcessUsedFor(a) ==
    /\ fn = "none"
    /\ fn' = "process_used_for"
    /\ arg' = a
    /\ out' = process_used_for(a)
    /\ UNCHANGED <<minted, calls, scriptVars>>

ProcessHomepage(a) ==
    /\ fn = "none"
    /\ fn' = "process_homepage"
    /\ arg' = a
    /\ out' = process_homepage(a)
    /\ UNCHANGED <<minted, calls, scriptVars>>

ProcessHomepageAsUrl(a) ==
    /\ fn = "none"
    /\ fn' = "process_homepage_as_url"
    /\ arg' = a
    /\ out' = process_homepage_as_url(a)
    /\ UNCHANGED <<minted, calls, scriptVars>>

\* process_authors applied to the list it returned.
ProcessAuthorsAgain ==
    /\ fn = "process_authors"
    /\ out.kind = "return"
    /\ fn' = "process_authors again"
    /\ arg' = out.value
    /\ out' = process_authors(out.value)
    /\ UNCHANGED <<minted, calls, scriptVars>>

\* process_keywords applied to what it returned.
ProcessKeywordsAgain ==
    /\ fn = "process_keywords"
    /\ out.kind = "return"
    /\ fn' = "process_keywords again"
    /\ arg' = out.value
    /\ out' = process_keywords(out.value)
    /\ UNCHANGED <<minted, calls, scriptVars>>

InitTransform == minted = NoCall /\ calls = 0 /\ IdleCall /\ NoScript

NextTransform ==
    \/ \E a \in {None} \cup AuthorDicts \cup AuthorLists : ProcessAuthors(a)
    \/ \E a \in {None} \cup UrlStrs : ProcessLicense(a)
    \/ \E a \in {None} \cup DoiStrs : ProcessDoi(a)
    \/ \E a \in {None} \cup KeywordStrs \cup KeywordLists : ProcessKeywords(a)
    \/ \E a \in {None} \cup FundingDicts \cup FundingLists,
          lookup \in {EmptyLut, GrantLut} : ProcessFunding(a, lookup)
    \/ \E a \in {None} \cup ControllerDicts \cup ControllerLists : ProcessArc(a)
    \/ \E a \in {None} \cup ControllerDicts \cup ControllerLists :
          ProcessDataController(a)
    \/ \E a \in {None} \cup ActivityDicts \cup ActivityLists : ProcessUsedFor(a)
    \/ \E a \in {None} \cup UrlStrs \cup HomepageLists : ProcessHomepage(a)
    \/ \E a \in {None} \cup UrlStrs \cup HomepageLists : ProcessHomepageAsUrl(a)
    \/ ProcessAuthorsAgain
    \/ ProcessKeywordsAgain

SpecTransform == InitTransform /\ [][NextTransform]_vars

(***************************************************************************)
(* Claims about the field transformers, checked under SpecTransform.       *)
(***************************************************************************)
\* The ORCID entries among the identifiers of a catalog author.
OrcidEntries(author) ==
    LET ids == DictGet(author, "identifiers", None)
    IN IF IsList(ids)
       THEN {i \in 1..Len(ids.v) : DictGet(ids.v[i], "name", None) = Str(<<"O", "R", "C", "I", "D">>)}
       ELSE {}

\* C4: process_authors is idempotent: applied to the list it returned it
\* returns that list again; and no author it returns has more than one
\* ORCID entry in `identifiers`, also when the author came with an
\* `identifiers` list (and an orcid).
C4_AuthorsIdempotent ==
    /\ fn = "process_authors again" => out = Return(arg)
    /\ (/\ fn \in {"process_authors", "process_authors again"}
        /\ out.kind = "return"
        /\ IsList(out.value))
        => \A i \in 1..Len(out.value.v) :
                Cardinality(OrcidEntries(out.value.v[i])) <= 1

\* C4 witness: the second application, on a list of two authors of which
\* one came with an ORCID entry in `identifiers` and an orcid of its own.
C4_Witness ==
    /\ fn = "process_authors again"
    /\ IsList(arg)
    /\ Len(arg.v) = 2
    /\ \E i \in 1..2 :
          DictGet(arg.v[i], "identifiers", None)
              = List(<<OrcidIdentifier(Str(<<"0", "0", "0", "0", "-", "2">>))>>)
    /\ out.kind = "return"

\* The tabby field a transformer was called on.
FieldArg == IF fn = "process_funding" THEN arg.funding ELSE arg

\* C5: every field transformer returns None when given None.
C5_NoneGivesNone ==
    (fn # "none" /\ FieldArg = None) => out = Return(None)

\* C10: process_license(None) is None, and process_license(s) is
\* {"name": s, "url": s} for every string s.
C10_License ==
    fn = "process_license" =>
        out = IF arg = None THEN Return(None)
              ELSE Return(Dict([name |-> arg, url |-> arg]))

(***************************************************************************)
(* queries.py: the enrichment queries.  The HTTP response of the one GET   *)
(* a query makes is the environment's choice: a status and a body.         *)
(***************************************************************************)
PyInt(i) == [t |-> "int", v |-> i]

\* requests' Response.ok: raise_for_status() raises for 400 <= status < 600.
Ok(r) == ~(400 <= r.status /\ r.status < 600)

\* A body that is no JSON and no XML document.
TextBody == [kind |-> "text"]
JsonBody(v) == [kind |-> "json", value |-> v]
XmlBody(root) == [kind |-> "xml", root |-> root]
HtmlBody(h1s) == [kind |-> "html", h1s |-> h1s]

\* r.json()
Json(r) ==
    IF r.body.kind = "json" THEN Return(r.body.value)
    ELSE Raise("JSONDecodeError")

author_from_csl(author) ==
    LET d == [givenName |-> DictGet(author, "given", None),
              familyName |-> DictGet(author, "family", None),
              name |-> DictGet(author, "name", None)]
    IN Dict([k \in {k \in DOMAIN d : ~IsNone(d[k])} |-> d[k]])

\* The text of s from position i on, without its <...> tags.
RECURSIVE StripTags(_, _)
StripTags(s, i) ==
    IF i > Len(s) THEN <<>>
    ELSE IF s[i] = "<" /\ \E j \in (i + 1)..Len(s) : s[j] = ">"
    THEN StripTags(s, FindAny(s, {">"}, i + 1) + 1)
    ELSE <<s[i]>> \o StripTags(s, i + 1)

\* html.fromstring(s).text_content(): lxml takes no None and no empty
\* document.
dehtmlize(s) ==
    IF ~IsStr(s) THEN Raise("TypeError")
    ELSE IF Len(s.v) = 0 THEN Raise("ParserError")
    ELSE Return(Str(StripTags(s.v, 1)))

\* query_doi_org from r.json() on: the publication of a CSL record
csl_publication(r) ==
    IF Json(r).kind = "raise" THEN Json(r)
    ELSE
        LET res == Json(r).value
            title == dehtmlize(DictGet(res, "title", None))
            doi == DictGet(res, "DOI", None)
            date_parts == DictGet(DictGet(res, "issued", Dict(<<>>)), "date-parts",
                                  List(<<List(<<None>>)>>))
            outlet == DictGet(res, "container-title", None)
            author == DictGet(res, "author", None)
            pub == [type |-> DictGet(res, "type", None),
                    title |-> title.value,
                    doi |-> IF StartsWith(doi.v, <<"h", "t", "t", "p">>) THEN doi
                            ELSE Str(<<"h", "t", "t", "p", "s", ":", "/", "/", "d", "o", "i", ".", "o", "r", "g", "/">> \o doi.v),
                    datePublished |-> date_parts.v[1].v[1],
                    publicationOutlet |-> outlet,
                    authors |-> List([i \in 1..Len(author.v) |->
                                        author_from_csl(author.v[i])])]
        IN IF title.kind = "raise" THEN title
           ELSE IF Len(date_parts.v) = 0 \/ Len(date_parts.v[1].v) = 0
           THEN Raise("IndexError")
           ELSE IF IsNone(author) THEN Raise("TypeError")
           ELSE IF IsNone(doi) THEN Raise("AttributeError")
           ELSE IF outlet = List(<<>>)
           THEN Return(Dict(DictDel(pub, "publicationOutlet")))
           ELSE Return(Dict(pub))

\* query_doi_org testing for "not found" only, in place of r.ok.
query_doi_org_404(r) ==
    IF r.status = 404 THEN Return(None)
    ELSE csl_publication(r)

\* query_doi_org(doi), given the response r of doi.org
query_doi_org(r) ==
    IF ~Ok(r) THEN Return(None)
    ELSE csl_publication(r)

\* query_agency(doi), given the response r of doi.org/ra
query_agency(r) ==
    IF ~Ok(r) THEN Return(None)
    ELSE IF Json(r).kind = "raise" THEN Json(r)
    ELSE LET agencies == Json(r).value
         IN IF Len(agencies.v) = 0 THEN Raise("IndexError")
            ELSE IF "RA" \notin DOMAIN agencies.v[1].v THEN Raise("KeyError")
            ELSE Return(agencies.v[1].v["RA"])

\* The ORCID iD pattern of unixref_journal matches s at position i:
\* 0000-000(1-[5-9]|2-[0-9]|3-[0-4])[0-9]{3}-[0-9]{3}[0-9X]
OrcidAt(s, i) ==
    /\ i + 18 <= Len(s)
    /\ SubSeq(s, i, i + 7) = <<"0", "0", "0", "0", "-", "0", "0", "0">>
    /\ \/ s[i + 8] = "1" /\ s[i + 10] \in {"5", "6", "7", "8", "9"}
       \/ s[i + 8] = "2" /\ s[i + 10] \in Digits
       \/ s[i + 8] = "3" /\ s[i + 10] \in {"0", "1", "2", "3", "4"}
    /\ s[i + 9] = "-"
    /\ \A j \in (i + 11)..(i + 13) : s[j] \in Digits
    /\ s[i + 14] = "-"
    /\ \A j \in (i + 15)..(i + 17) : s[j] \in Digits
    /\ s[i + 18] \in Digits \cup {"X"}

\* re.search(pattern, s).group()
OrcidSearch(s) ==
    IF \E i \in 1..Len(s) : OrcidAt(s, i)
    THEN LET i == CHOOSE i \in 1..Len(s) :
                    OrcidAt(s, i) /\ \A j \in 1..(i - 1) : ~OrcidAt(s, j)
         IN Return(Str(SubSeq(s, i, i + 18)))
    ELSE Raise("AttributeError")

\* The author a contributor element c gives; Absent for a skipped element.
unixref_author(c) ==
    IF c.tag = "person_name"
    THEN LET found == IF c.ORCID # Absent THEN OrcidSearch(c.ORCID.v) ELSE Idle
         IN IF found.kind = "raise" THEN found
            ELSE Return(MkDict(<<
                    <<"givenName", c.given_name>>,
                    <<"familyName", c.surname>>,
                    <<"honorificSuffix", c.suffix>>,
                    <<"identifiers",
                      IF c.ORCID # Absent
                      THEN List(<<Dict([type |-> Str(<<"O", "R", "C", "I", "D">>),
                                        identifier |-> found.value])>>)
                      ELSE Absent>> >>))
    ELSE IF c.tag = "organization" THEN Return(Dict([name |-> c.text]))
    ELSE IF c.tag = "anonymous" THEN Return(Dict([name |-> Str(<<"a", "n", "o", "n", "y", "m", "o", "u", "s">>)]))
    ELSE Return(Absent)

\* The first year of a publication_date with media_type print, else the
\* first year of any publication_date; Absent without any.
UnixrefYear(dates) ==
    LET years == {i \in 1..Len(dates) : dates[i].year # Absent}
        printed == {i \in years : dates[i].media_type = "print"}
    IN IF printed # {}
       THEN dates[CHOOSE i \in printed : \A j \in printed : i <= j].year
       ELSE IF years # {}
       THEN dates[CHOOSE i \in years : \A j \in years : i <= j].year
       ELSE Absent

IsPresent(x) == x # Absent

unixref_journal(elem) ==
    LET cs == elem.contributors.v
        authors == [i \in 1..Len(cs) |-> unixref_author(cs[i])]
        kept == SelectSeq([i \in 1..Len(authors) |-> authors[i].value], IsPresent)
    IN IF elem.doi # Absent /\ ~IsStr(elem.doi) THEN Raise("AttributeError")
       ELSE IF elem.contributors # Absent
               /\ \E i \in 1..Len(authors) : authors[i].kind = "raise"
       THEN Raise("AttributeError")
       ELSE Return(MkDict(<<
                <<"type", Str(<<"j", "o", "u", "r", "n", "a", "l", "-", "a", "r", "t", "i", "c", "l", "e">>)>>,
                <<"title", elem.title>>,
                <<"doi", IF elem.doi = Absent THEN Absent
                         ELSE IF StartsWith(elem.doi.v, <<"h", "t", "t", "p">>) THEN elem.doi
                         ELSE Str(<<"h", "t", "t", "p", "s", ":", "/", "/", "d", "o", "i", ".", "o", "r", "g", "/">> \o elem.doi.v)>>,
                <<"datePublished", UnixrefYear(elem.dates)>>,
                <<"publicationOutlet", elem.full_title>>,
                <<"authors", IF elem.contributors = Absent THEN Absent
                             ELSE List(kept)>> >>))

\* query_crossref_xml(doi), given the response r of doi.crossref.org
query_crossref_xml(r) ==
    IF ~Ok(r) THEN Return(None)
    ELSE IF r.body.kind # "xml" THEN Raise("ParseError")
    ELSE LET elem == r.body.root
         IN IF elem = Absent THEN Raise("AttributeError")
            ELSE IF elem.tag = "journal" THEN unixref_journal(elem)
            ELSE Raise("NotImplementedError")

\* ols_lookup(term, session), given the response r of the OLS API
ols_lookup(r) ==
    IF r.status # 200 THEN Return(None)
    ELSE Json(r)

\* query_cordis(cordis_url), given the response r of CORDIS
query_cordis(r) ==
    IF ~Ok(r) THEN Return(None)
    ELSE IF r.body.kind # "xml" THEN Raise("ParseError")
    ELSE IF r.body.root.title = Absent \/ r.body.root.acronym = Absent
    THEN Raise("AttributeError")
    ELSE Return(Dict([name |-> r.body.root.title,
                      alternateName |-> r.body.root.acronym]))

Whitespace == {" ", "\n", "\t"}

\* " ".join(s.split()), from position i on; `word` tells whether a word
\* was already put out.
RECURSIVE JoinWords(_, _, _)
JoinWords(s, i, word) ==
    IF i > Len(s) THEN <<>>
    ELSE IF s[i] \in Whitespace THEN JoinWords(s, i + 1, word)
    ELSE LET end == FindAny(s, Whitespace, i)
         IN (IF word THEN <<" ">> ELSE <<>>)
            \o SubSeq(s, i, end - 1) \o JoinWords(s, end, TRUE)

\* parse_gepris(gepris_url), given the response r of GEPRIS
parse_gepris(r) ==
    IF ~Ok(r) THEN Return(None)
    ELSE LET h1s == IF r.body.kind = "html" THEN r.body.h1s ELSE <<>>
             shown == {i \in 1..Len(h1s) : h1s[i].class # "hidden"}
         IN IF shown = {} THEN Raise("AttributeError")
            ELSE LET h1 == h1s[CHOOSE i \in shown : \A j \in shown : i <= j]
                 IN Return(Dict([name |-> Str(JoinWords(h1.text, 1, FALSE))]))

(***************************************************************************)
(* The responses the queries get.                                          *)
(***************************************************************************)
Statuses == {200, 201, 304, 404, 500}

CslAuthorPool ==
    {Dict([given |-> Str(<<"A", "n", "n">>), family |-> Str(<<"L", "e", "e">>)]),
     Dict([name |-> Str(<<"C", "o", "n", "s", "o", "r", "t", "i", "u", "m">>)])}
CslAuthorLists == {List(l) : l \in SeqsOf(CslAuthorPool, 0, MaxItems)}

\* CSL-JSON records: every combination of the fields but author, then
\* every author list.
CslRecords ==
    {MkDict(<<<<"type", t>>, <<"title", ti>>, <<"DOI", d>>, <<"issued", i>>,
              <<"container-title", c>>, <<"author", List(<<>>)>>>>) :
        t \in {Absent, Str(<<"j", "o", "u", "r", "n", "a", "l", "-", "a", "r", "t", "i", "c", "l", "e">>)},
        ti \in {Absent, Str(<<"A", " ", "<", "i", ">", "b", "<", "/", "i", ">">>), Str(<<>>)},
        d \in {Absent, Str(<<"1", "0", ".", "1", "/", "x">>), Str(<<"h", "t", "t", "p", "s", ":", "/", "/", "d", "o", "i", ".", "o", "r", "g", "/", "1", "0", ".", "1", "/", "x">>)},
        i \in {Absent, Dict(<<>>),
               Dict(("date-parts" :> List(<<List(<<PyInt(2020), PyInt(5)>>)>>))),
               Dict(("date-parts" :> List(<<>>)))},
        c \in {Absent, List(<<>>), Str(<<"J">>)}}
    \cup
    {MkDict(<<<<"type", Str(<<"d", "a", "t", "a", "s", "e", "t">>)>>, <<"title", Str(<<"A", " ", "<", "i", ">", "b", "<", "/", "i", ">">>)>>,
              <<"DOI", Str(<<"1", "0", ".", "1", "/", "x">>)>>, <<"author", a>>>>) :
        a \in {Absent} \cup CslAuthorLists}
DoiOrgBodies == {TextBody} \cup {JsonBody(v) : v \in CslRecords}

AgencyBodies ==
    {TextBody, JsonBody(List(<<>>)),
     JsonBody(List(<<Dict([DOI |-> Str(<<"1", "0", ".", "1", "/", "x">>), RA |-> Str(<<"C", "r", "o", "s", "s", "r", "e", "f">>)])>>)),
     JsonBody(List(<<Dict([DOI |-> Str(<<"1", "0", ".", "1", "/", "x">>), RA |-> Str(<<"D", "a", "t", "a", "C", "i", "t", "e">>)])>>)),
     JsonBody(List(<<Dict([DOI |-> Str(<<"1", "0", ".", "1", "/", "x">>),
                           status |-> Str(<<"D", "O", "I", " ", "d", "o", "e", "s", " ", "n", "o", "t", " ", "e", "x", "i", "s", "t">>)])>>))}

Person(g, s, x, o) ==
    [tag |-> "person_name", given_name |-> g, surname |-> s, suffix |-> x, ORCID |-> o]
ContributorPool ==
    {Person(Str(<<"A", "n", "n">>), Str(<<"L", "e", "e">>), Absent,
            Str(<<"h", "t", "t", "p", "s", ":", "/", "/", "o", "r", "c", "i", "d", ".", "o", "r", "g", "/", "0", "0", "0", "0", "-", "0", "0", "0", "2", "-", "1", "8", "2", "5", "-", "0", "0", "9", "7">>)),
     Person(Absent, Str(<<"B", "o">>), Str(<<"J", "r">>), Absent),
     Person(Str(<<"C", "y">>), Str(<<"D", "a", "y">>), Absent, Str(<<"0", "0", "0", "9", "-", "0", "0", "0", "0", "-", "0", "0", "0", "0", "-", "0", "0", "0", "1">>)),
     [tag |-> "organization", text |-> Str(<<"C", "o", "n", "s", "o", "r", "t", "i", "u", "m">>)],
     [tag |-> "anonymous"],
     [tag |-> "translator"]}
DatePool ==
    {[media_type |-> "print", year |-> Str(<<"2", "0", "2", "0">>)],
     [media_type |-> "online", year |-> Str(<<"2", "0", "1", "9">>)],
     [media_type |-> "print", year |-> Absent]}

Journal(t, d, ds, f, c) ==
    [tag |-> "journal", title |-> t, doi |-> d, dates |-> ds, full_title |-> f,
     contributors |-> c]
\* journal records: every combination of title, doi and full_title, then
\* every sequence of publication dates, then every list of contributors.
JournalElems ==
    {Journal(t, d, <<>>, f, Absent) :
        t \in {Absent, Str(<<"T">>)},
        d \in {Absent, None, Str(<<"1", "0", ".", "1", "/", "x">>), Str(<<"h", "t", "t", "p", "s", ":", "/", "/", "d", "o", "i", ".", "o", "r", "g", "/", "1", "0", ".", "1", "/", "x">>)},
        f \in {Absent, Str(<<"J">>)}}
    \cup {Journal(Str(<<"T">>), Str(<<"1", "0", ".", "1", "/", "x">>), ds, Str(<<"J">>), Absent) :
            ds \in SeqsOf(DatePool, 0, MaxItems)}
    \cup {Journal(Str(<<"T">>), Str(<<"1", "0", ".", "1", "/", "x">>), <<>>, Str(<<"J">>), List(c)) :
            c \in SeqsOf(ContributorPool, 0, MaxItems)}
CrossrefBodies ==
    {TextBody, XmlBody(Absent), XmlBody([tag |-> "book"]), XmlBody([tag |-> "error"])}
    \cup {XmlBody(e) : e \in JournalElems}

OlsBodies ==
    {TextBody,
     JsonBody(Dict([label |-> Str(<<"M", "u", "s", " ", "m", "u", "s", "c", "u", "l", "u", "s">>),
                    iri |-> Str(<<"h", "t", "t", "p", ":", "/", "/", "p", "u", "r", "l", ".", "o", "b", "o", "l", "i", "b", "r", "a", "r", "y", ".", "o", "r", "g", "/", "o", "b", "o", "/", "N", "C", "B", "I", "T", "a", "x", "o", "n", "_", "1", "0", "0", "9", "0">>)])),
     JsonBody(Dict(<<>>))}

CordisBodies ==
    {TextBody} \cup
    {XmlBody([title |-> t, acronym |-> a]) :
        t \in {Absent, Str(<<"G", "r", "a", "n", "t", " ", "t", "i", "t", "l", "e">>)}, a \in {Absent, Str(<<"G", "T">>)}}

H1Pool ==
    {[class |-> "hidden", text |-> <<"G", "E", "P", "R", "I", "S">>],
     [class |-> "", text |-> <<" ", "D", "F", "G", "\n", " ", "1", "4", "5", "1", " ">>]}
GeprisBodies == {TextBody} \cup {HtmlBody(h) : h \in SeqsOf(H1Pool, 0, MaxItems)}

Response(s, b) == [status |-> s, body |-> b]

(***************************************************************************)
(* One action per query: the GET and what the function makes of it.        *)
(***************************************************************************)
QueryDoiOrg(r) ==
    /\ fn = "none"
    /\ fn' = "query_doi_org"
    /\ arg' = r
    /\ out' = query_doi_org(r)
    /\ UNCHANGED <<minted, calls, scriptVars>>

QueryAgency(r) ==
    /\ fn = "none"
    /\ fn' = "query_agency"
    /\ arg' = r
    /\ out' = query_agency(r)
    /\ UNCHANGED <<minted, calls, scriptVars>>

QueryCrossrefXml(r) ==
    /\ fn = "none"
    /\ fn' = "query_crossref_xml"
    /\ arg' = r
    /\ out' = query_crossref_xml(r)
    /\ UNCHANGED <<minted, calls, scriptVars>>

OlsLookup(r) ==
    /\ fn = "none"
    /\ fn' = "ols_lookup"
    /\ arg' = r
    /\ out' = ols_lookup(r)
    /\ UNCHANGED <<minted, calls, scriptVars>>

QueryCordis(r) ==
    /\ fn = "none"
    /\ fn' = "query_cordis"
    /\ arg' = r
    /\ out' = query_cordis(r)
    /\ UNCHANGED <<minted, calls, scriptVars>>

ParseGepris(r) ==
    /\ fn = "none"
    /\ fn' = "parse_gepris"
    /\ arg' = r
    /\ out' = parse_gepris(r)
    /\ UNCHANGED <<minted, calls, scriptVars>>

InitQuery == minted = NoCall /\ calls = 0 /\ IdleCall /\ NoScript

NextQuery ==
    \/ \E s \in Statuses, b \in DoiOrgBodies : QueryDoiOrg(Response(s, b))
    \/ \E s \in Statuses, b \in AgencyBodies : QueryAgency(Response(s, b))
    \/ \E s \in Statuses, b \in CrossrefBodies : QueryCrossrefXml(Response(s, b))
    \/ \E s \in Statuses, b \in OlsBodies : OlsLookup(Response(s, b))
    \/ \E s \in Statuses, b \in CordisBodies : QueryCordis(Response(s, b))
    \/ \E s \in Statuses, b \in GeprisBodies : ParseGepris(Response(s, b))

SpecQuery == InitQuery /\ [][NextQuery]_vars

(***************************************************************************)
(* Claims about the enrichment queries.                                    *)
(***************************************************************************)
Is2xx(r) == 200 <= r.status /\ r.status < 300

\* The queries that test r.ok
OkQueries ==
    {"query_doi_org", "query_agency", "query_crossref_xml", "query_cordis",
     "parse_gepris"}

\* C6 as stated: whenever the status of the response is not 2xx, every
\* query function returns None and does not raise, whatever the body is.
C6_Non2xxGivesNone ==
    (fn \in OkQueries \cup {"ols_lookup"} /\ ~Is2xx(arg)) => out = Return(None)

\* C6 as amended: a query function that tests r.ok returns None and does
\* not raise whenever the status is an HTTP error (400 to 599), whatever
\* the body is; ols_lookup does so for every status other than 200.
C6_ErrorStatusGivesNone ==
    /\ (fn \in OkQueries /\ 400 <= arg.status /\ arg.status < 600)
            => out = Return(None)
    /\ (fn = "ols_lookup" /\ arg.status # 200) => out = Return(None)

\* an error status on a body that parses to a publication, answered by None
C6_Witness ==
    /\ fn = "query_doi_org"
    /\ arg.status = 500
    /\ csl_publication(arg).kind = "return"
    /\ out = Return(None)

\* C7: on a 2xx response, whatever the payload, the outcome of
\* query_doi_org, query_crossref_xml, ols_lookup, query_cordis and
\* parse_gepris is a dict or None, never an exception or another type.
C7_SuccessGivesDictOrNone ==
    (/\ fn \in {"query_doi_org", "query_crossref_xml", "ols_lookup", "query_cordis",
                "parse_gepris"}
     /\ Is2xx(arg))
        => (out.kind = "return" /\ (IsDict(out.value) \/ IsNone(out.value)))

(***************************************************************************)
(* process_publications of load_tabby.py.  net holds the responses the     *)
(* three requests for the DOI get: doi.org, doi.org/ra and Crossref.       *)
(***************************************************************************)

\* lines 131-138: the publication from its own fields
publication_from_fields(publication) ==
    LET citation == DictGet(publication, "citation", None)
        popped == DictDel(publication.v, "citation")
    IN IF ~IsNone(citation)
       THEN Dict(DictSet(DictSet(popped, "title", citation), "authors", List(<<>>)))
       ELSE Dict(popped)

\* lines 121-129: the Crossref fallback.  load_tabby.py does not import
\* warnings, so the handler of NotImplementedError raises NameError.
crossref_fallback(publication, net) ==
    LET agency == query_agency(net.agency)
        pub == query_crossref_xml(net.crossref)
    IN IF agency.kind = "raise" THEN agency
       ELSE IF agency.value # Str(<<"C", "r", "o", "s", "s", "r", "e", "f">>)
       THEN Return(publication_from_fields(publication))
       ELSE IF pub = Raise("NotImplementedError") THEN Raise("NameError")
       ELSE IF pub.kind = "raise" THEN pub
       ELSE IF ~IsNone(pub.value) THEN pub
       ELSE Return(publication_from_fields(publication))

\* one turn of the loop of process_publications
process_publication(publication, net) ==
    LET pub == query_doi_org(net.doi_org)
    IN IF IsNone(DictGet(publication, "doi", None))
       THEN Return(publication_from_fields(publication))
       ELSE IF pub.kind = "raise" THEN pub
       ELSE IF ~IsNone(pub.value) THEN pub
       ELSE crossref_fallback(publication, net)

process_publications(publications, net) ==
    IF IsNone(publications) THEN Return(None)
    ELSE LET l == IF IsDict(publications) THEN <<publications>> ELSE publications.v
         IN ListOfOutcomes([i \in 1..Len(l) |-> process_publication(l[i], net)])

PublicationDicts ==
    {MkDict(<<<<"citation", c>>, <<"doi", d>>, <<"datePublished", y>>>>) :
        c \in {Absent, Str(<<"L", "e", "e", " ", "(", "2", "0", "2", "0", ")">>)},
        d \in {Absent, Str(<<"1", "0", ".", "1", "/", "x">>), Str(<<"h", "t", "t", "p", "s", ":", "/", "/", "d", "o", "i", ".", "o", "r", "g", "/", "1", "0", ".", "1", "/", "x">>)},
        y \in {Absent, Str(<<"2", "0", "2", "0">>)}}
PublicationLists == {List(l) : l \in SeqsOf(PublicationDicts, 0, MaxItems)}

CslComplete ==
    MkDict(<<<<"type", Str(<<"d", "a", "t", "a", "s", "e", "t">>)>>, <<"title", Str(<<"A", " ", "<", "i", ">", "b", "<", "/", "i", ">">>)>>,
             <<"DOI", Str(<<"1", "0", ".", "1", "/", "x">>)>>, <<"author", List(<<>>)>>>>)
CslNoAuthor ==
    MkDict(<<<<"type", Str(<<"d", "a", "t", "a", "s", "e", "t">>)>>, <<"title", Str(<<"A", " ", "<", "i", ">", "b", "<", "/", "i", ">">>)>>,
             <<"DOI", Str(<<"1", "0", ".", "1", "/", "x">>)>>>>)
Nets ==
    [doi_org : {Response(404, TextBody), Response(200, JsonBody(CslComplete)),
                Response(200, JsonBody(CslNoAuthor))},
     agency : {Response(404, TextBody)}
              \cup {Response(200, b) : b \in AgencyBodies \ {TextBody}},
     crossref : {Response(404, TextBody), Response(200, TextBody),
                 Response(200, XmlBody([tag |-> "book"])),
                 Response(200, XmlBody(Journal(Str(<<"T">>), Str(<<"1", "0", ".", "1", "/", "x">>), <<>>,
                                               Str(<<"J">>), Absent)))}]

ProcessPublications(a, net) ==
    /\ fn = "none"
    /\ fn' = "process_publications"
    /\ arg' = [publications |-> a, net |-> net]
    /\ out' = process_publications(a, net)
    /\ UNCHANGED <<minted, calls, scriptVars>>

InitPublications == minted = NoCall /\ calls = 0 /\ IdleCall /\ NoScript

NextPublications ==
    \/ \E net \in Nets : ProcessPublications(None, net)
    \/ \E a \in PublicationDicts, net \in Nets : ProcessPublications(a, net)
    \/ \E a \in PublicationLists, net \in Nets : ProcessPublications(a, net)

SpecPublications == InitPublications /\ [][NextPublications]_vars

\* query_doi_org returns None and the Crossref fallback yields nothing:
\* the agency is not Crossref, the Crossref request is not OK, or
\* query_crossref_xml raises NotImplementedError.
EnrichmentFails(net) ==
    /\ query_doi_org(net.doi_org) = Return(None)
    /\ query_agency(net.agency).kind = "return"
    /\ \/ query_agency(net.agency).value # Str(<<"C", "r", "o", "s", "s", "r", "e", "f">>)
       \/ ~Ok(net.crossref)
       \/ query_crossref_xml(net.crossref) = Raise("NotImplementedError")

\* C8: when enrichment fails for the publications with a DOI,
\* process_publications does not raise and emits each publication from
\* its own fields, citation (if present) moved into title and authors
\* set to [].
C8_FailedEnrichmentSkipped ==
    (/\ fn = "process_publications"
     /\ ~IsNone(arg.publications)
     /\ EnrichmentFails(arg.net))
        => LET l == IF IsDict(arg.publications) THEN <<arg.publications>>
                    ELSE arg.publications.v
           IN out = Return(List([i \in 1..Len(l) |-> publication_from_fields(l[i])]))

(***************************************************************************)
(* queries.py: OLS terms.                                                  *)
(***************************************************************************)
\* the first synonym that is an exact genbank common name, from i on
RECURSIVE ExactSynonym(_, _)
ExactSynonym(synonyms, i) ==
    IF i > Len(synonyms) THEN Absent
    ELSE IF /\ DictGet(synonyms[i], "scope", None) = Str(<<"h", "a", "s", "E", "x", "a", "c", "t", "S", "y", "n", "o", "n", "y", "m">>)
            /\ DictGet(synonyms[i], "type", None) = Str(<<"g", "e", "n", "b", "a", "n", "k", " ", "c", "o", "m", "m", "o", "n", " ", "n", "a", "m", "e">>)
    THEN DictGet(synonyms[i], "name", None)
    ELSE ExactSynonym(synonyms, i + 1)

repr_ncbitaxon(ols_response, default) ==
    IF IsNone(ols_response) THEN default
    ELSE LET obo_synonym == DictGet(ols_response, "obo_synonym", None)
             synonyms == IF IsNone(obo_synonym) THEN <<>>
                         ELSE IF IsDict(obo_synonym) THEN <<obo_synonym>>
                         ELSE obo_synonym.v
         IN MkDict(<<
              <<"@type", Str(<<"h", "t", "t", "p", "s", ":", "/", "/", "o", "p", "e", "n", "m", "i", "n", "d", "s", ".", "e", "b", "r", "a", "i", "n", "s", ".", "e", "u", "/", "c", "o", "n", "t", "r", "o", "l", "l", "e", "d", "T", "e", "r", "m", "s", "/", "S", "p", "e", "c", "i", "e", "s">>)>>,
              <<"name", DictGet(ols_response, "label", None)>>,
              <<"preferredOntologyIdentifier", DictGet(ols_response, "iri", None)>>,
              <<"synonym", ExactSynonym(synonyms, 1)>> >>)

repr_uberon(ols_response, default) ==
    IF IsNone(ols_response) THEN default
    ELSE MkDict(<<
           <<"@type",
             Str(<<"h", "t", "t", "p", "s", ":", "/", "/", "o", "p", "e", "n", "m", "i", "n", "d", "s", ".", "e", "b", "r", "a", "i", "n", "s", ".", "e", "u", "/", "c", "o", "n", "t", "r", "o", "l", "l", "e", "d", "T", "e", "r", "m", "s", "/", "U", "B", "E", "R", "O", "N", "P", "a", "r", "c", "e", "l", "l", "a", "t", "i", "o", "n">>)>>,
           <<"name", DictGet(ols_response, "label", None)>>,
           <<"preferredOntologyIdentifier", DictGet(ols_response, "iri", None)>> >>)

\* the terms looked up in OLS, and a session in which OLS answers each of
\* them with r
OlsTermKeys ==
    {<<"N", "C", "B", "I", "T", "a", "x", "o", "n", ":", "1", "0", "0", "9", "0">>,
     <<"U", "B", "E", "R", "O", "N", ":", "0", "0", "1", "3", "7", "0", "2">>}

SessionOf(r) == [t \in OlsTermKeys |-> r]

\* filter_func(ols_lookup(t, session), None): the default left out
ols_term_no_default(t, filter_func, r) ==
    IF ols_lookup(r).kind = "raise" THEN ols_lookup(r)
    ELSE IF filter_func = "repr_ncbitaxon"
    THEN Return(repr_ncbitaxon(ols_lookup(r).value, None))
    ELSE Return(repr_uberon(ols_lookup(r).value, None))

\* filter_func(ols_lookup(t, session), t), given the response r of OLS
ols_term(t, filter_func, r) ==
    IF ols_lookup(r).kind = "raise" THEN ols_lookup(r)
    ELSE IF filter_func = "repr_ncbitaxon"
    THEN Return(repr_ncbitaxon(ols_lookup(r).value, t))
    ELSE Return(repr_uberon(ols_lookup(r).value, t))

\* process_ols_term(term, filter_func), in a session that maps each term to
\* the response of OLS to its lookup
process_ols_term(term, filter_func, session) ==
    IF IsList(term)
    THEN ListOfOutcomes([i \in 1..Len(term.v) |->
                            ols_term(term.v[i], filter_func, session[term.v[i].v])])
    ELSE IF IsStr(term) THEN ols_term(term, filter_func, session[term.v])
    ELSE Return(None)

(***************************************************************************)
(* load_tabby.py: files.                                                   *)
(***************************************************************************)
DigitValue(c) == CHOOSE n \in 0..9 : ToString(n) = c

\* int(s) of a string of decimal digits, from the left
RECURSIVE IntOfDigits(_)
IntOfDigits(s) ==
    IF Len(s) = 0 THEN 0
    ELSE 10 * IntOfDigits(SubSeq(s, 1, Len(s) - 1)) + DigitValue(s[Len(s)])

\* int(x)
int(x) ==
    IF x.t = "int" THEN Return(x)
    ELSE IF IsStr(x) /\ Len(x.v) > 0 /\ \A i \in 1..Len(x.v) : x.v[i] \in Digits
    THEN Return(PyInt(IntOfDigits(x.v)))
    ELSE IF IsStr(x) THEN Raise("ValueError")
    ELSE Raise("TypeError")

\* f.get(k, {}).get("@value")
GetValue(f, k) ==
    IF IsDict(DictGet(f, k, Dict(<<>>)))
    THEN Return(DictGet(DictGet(f, k, Dict(<<>>)), "@value", None))
    ELSE Raise("AttributeError")

\* process_file without the type conversion of lines 304-306
process_file_no_int(f) ==
    LET path == GetValue(f, "path")
        size == GetValue(f, "contentbytesize")
        name == GetValue(f, "name")
        useName == IsNone(DictGet(f, "path", None)) /\ ~IsNone(DictGet(f, "name", None))
        d == [path |-> IF useName THEN name.value ELSE path.value,
              contentbytesize |-> size.value,
              url |-> DictGet(f, "url", None)]
    IN IF path.kind = "raise" THEN path
       ELSE IF size.kind = "raise" THEN size
       ELSE IF useName /\ name.kind = "raise" THEN name
       ELSE Return(Dict([k \in {x \in DOMAIN d : ~IsNone(d[x])} |-> d[k]]))

process_file(f) ==
    LET path == GetValue(f, "path")
        size == GetValue(f, "contentbytesize")
        name == GetValue(f, "name")
        useName == IsNone(DictGet(f, "path", None)) /\ ~IsNone(DictGet(f, "name", None))
        d == [path |-> IF useName THEN name.value ELSE path.value,
              contentbytesize |-> IF Truthy(size.value) THEN int(size.value).value
                                  ELSE size.value,
              url |-> DictGet(f, "url", None)]
    IN IF path.kind = "raise" THEN path
       ELSE IF size.kind = "raise" THEN size
       ELSE IF useName /\ name.kind = "raise" THEN name
       ELSE IF Truthy(size.value) /\ int(size.value).kind = "raise"
       THEN int(size.value)
       ELSE Return(Dict([k \in {x \in DOMAIN d : ~IsNone(d[x])} |-> d[k]]))

(***************************************************************************)
(* pathlib.  A path is the sequence of its parts.                          *)
(***************************************************************************)
\* PurePath.parent
parent(path) == IF Len(path) = 0 THEN path ELSE SubSeq(path, 1, Len(path) - 1)

\* PurePath.relative_to(other)
relative_to(path, other) ==
    IF StartsWith(path, other)
    THEN Return(SubSeq(path, Len(other) + 1, Len(path)))
    ELSE Raise("ValueError")

\* PurePath.match(pattern) for a relative pattern whose parts are names or
\* "*": the pattern is matched against the last parts of the path
match(path, pattern) ==
    /\ Len(pattern) <= Len(path)
    /\ \A i \in 1..Len(pattern) :
           \/ pattern[i] = <<"*">>
           \/ pattern[i] = path[Len(path) - Len(pattern) + i]

TabbyDir == <<<<".", "d", "a", "t", "a", "l", "a", "d">>, <<"t", "a", "b", "b", "y">>>>

\* PurePath.name
PathName(path) == path[Len(path)]

(***************************************************************************)
(* load_tabby.py, the script: from the compacted record to the catalog.    *)
(***************************************************************************)
\* How many of the fields of a record are left out at most
MaxAbsent == 1

\* datalad_catalog's get_metadata_item, as the script uses its result
get_metadata_item(item_type, dataset_id, dataset_version) ==
    Dict([type |-> Str(item_type),
          dataset_id |-> dataset_id,
          dataset_version |-> dataset_version,
          metadata_sources |->
              Dict([sources |-> List(<<Dict([source_name |-> Str(<<"t", "a", "b", "b", "y">>),
                                            source_version |-> Str(<<"0", ".", "1", ".", "0">>)])>>)])])

\* json.dumps(obj): None becomes null, the keys stay
json_dumps(obj) == [t |-> "json", of |-> obj]

\* {k: v for k, v in d.items() if v is not None}, on the mapping of a dict
StripNone(f) == [k \in {x \in DOMAIN f : ~IsNone(f[x])} |-> f[k]]

\* The fields the script reads from the record, each with a value
RecordFields ==
    [name |-> Str(<<"N">>),
     sfbProject |-> Str(<<"A", "0", "1">>),
     version |-> Str(<<"1">>),
     title |-> Str(<<"T">>),
     license |-> Str(<<"h", "t", "t", "p", "s", ":", "/", "/", "e", "x", "a", "m", "p", "l", "e", ".", "o", "r", "g", "/", "l">>),
     description |-> Str(<<"d">>),
     doi |-> Str(<<"1", "0", ".", "1", "/", "x">>),
     authors |-> Dict([name |-> Str(<<"A", "n", "n", " ", "L", "e", "e">>), orcid |-> Str(<<"0", "0", "0", "0", "-", "1">>)]),
     keywords |-> Str(<<"a">>),
     funding |-> Dict([funder |-> Str(<<"D", "F", "G">>), identifier |-> Str(<<"4", "3", "1", "5", "4", "9", "0", "2", "9", "-", "a", "0", "1">>)]),
     publications |-> Dict([doi |-> Str(<<"1", "0", ".", "1", "/", "x">>), citation |-> Str(<<"L", "e", "e", " ", "(", "2", "0", "2", "0", ")">>)]),
     sfbDataController |-> Dict([name |-> Str(<<"A", "n", "n", " ", "L", "e", "e">>), email |-> Str(<<"a", "@", "x", ".", "o", "r", "g">>)]),
     sfbHomepage |-> Str(<<"h", "t", "t", "p", "s", ":", "/", "/", "g", "i", "t", "h", "u", "b", ".", "c", "o", "m", "/", "d", "s">>),
     sfbSampleOrganism |-> Str(<<"N", "C", "B", "I", "T", "a", "x", "o", "n", ":", "1", "0", "0", "9", "0">>),
     sfbSamplePart |-> List(<<Str(<<"U", "B", "E", "R", "O", "N", ":", "0", "0", "1", "3", "7", "0", "2">>)>>),
     sfbUsedFor |-> Dict([title |-> Str(<<"T">>), url |-> Str(<<"h", "t", "t", "p", "s", ":", "/", "/", "e", "x", "a", "m", "p", "l", "e", ".", "o", "r", "g">>)]),
     fileList |-> List(<<Dict([path |-> Dict(("@value" :> Str(<<"a", ".", "t", "x", "t">>))),
                               contentbytesize |-> Dict(("@value" :> Str(<<"1", "2">>)))])>>)]

\* The records that lack at most MaxAbsent of the fields
Records ==
    {Dict([k \in (DOMAIN RecordFields) \ absent |-> RecordFields[k]]) :
        absent \in {a \in SUBSET (DOMAIN RecordFields) : Cardinality(a) <= MaxAbsent}}

\* The responses to the requests of a run: DOIs resolve and terms are
\* found, or neither.
Worlds ==
    {[doi_org |-> Response(200, JsonBody(CslComplete)),
      agency |-> Response(200, JsonBody(List(<<Dict([RA |-> Str(<<"D", "a", "t", "a", "C", "i", "t", "e">>)])>>))),
      crossref |-> Response(404, TextBody),
      ols |-> Response(200, JsonBody(Dict([label |-> Str(<<"M", "u", "s", " ", "m", "u", "s", "c", "u", "l", "u", "s">>),
                                          iri |-> Str(<<"h", "t", "t", "p", ":", "/", "/", "p", "u", "r", "l", ".", "o", "b", "o", "l", "i", "b", "r", "a", "r", "y", ".", "o", "r", "g", "/", "o", "b", "o", "/", "N", "C", "B", "I", "T", "a", "x", "o", "n", "_", "1", "0", "0", "9", "0">>)])))],
     [doi_org |-> Response(404, TextBody),
      agency |-> Response(200, JsonBody(List(<<Dict([RA |-> Str(<<"D", "a", "t", "a", "C", "i", "t", "e">>)])>>))),
      crossref |-> Response(404, TextBody),
      ols |-> Response(404, TextBody)]}

\* The tabby files the script is run on.
TabbyPaths ==
    {<<<<".", "d", "a", "t", "a", "l", "a", "d">>, <<"t", "a", "b", "b", "y">>, <<"s", "e", "l", "f">>, <<"d", "a", "t", "a", "s", "e", "t", "@", "t", "b", "y", "-", "d", "s", "1", ".", "t", "s", "v">>>>,
     <<<<".", "d", "a", "t", "a", "l", "a", "d">>, <<"t", "a", "b", "b", "y">>, <<"d", "s", "1">>, <<"d", "a", "t", "a", "s", "e", "t", "@", "t", "b", "y", "-", "d", "s", "1", ".", "t", "s", "v">>>>,
     <<<<".", "d", "a", "t", "a", "l", "a", "d">>, <<"t", "a", "b", "b", "y">>, <<"s", "e", "l", "f", "_", "d", "a", "t", "a", "s", "e", "t", "@", "t", "b", "y", ".", "t", "s", "v">>>>,
     <<<<".", "d", "a", "t", "a", "l", "a", "d">>, <<"t", "a", "b", "b", "y">>, <<"d", "a", "t", "a", "s", "e", "t", "@", "t", "b", "y", "-", "d", "s", "1", ".", "t", "s", "v">>>>}

\* args: remove_first, set_as_super, tabby_path
Args == [remove_first : BOOLEAN, set_as_super : BOOLEAN, tabby_path : TabbyPaths]

\* lines 501-504 with the second test left out
IsSelfPath_dir_only(tabby_path) ==
    match(parent(tabby_path), TabbyDir \o <<<<"s", "e", "l", "f">>>>)

\* lines 501-504: the path suggests a self-description of a dataset
IsSelfPath(tabby_path) ==
    \/ match(parent(tabby_path), TabbyDir \o <<<<"s", "e", "l", "f">>>>)
    \/ /\ match(parent(tabby_path), TabbyDir)
       /\ StartsWith(PathName(tabby_path), <<"s", "e", "l", "f">>)

\* compacted.get(k)
Get(k) == DictGet(compacted, k, None)

\* An exception ends the script
ScriptRaises(exc) ==
    /\ pc' = "raised"
    /\ raised' = Raise(exc)

\* lines 440-456: the metadata item, field by field
Assemble ==
    /\ pc = "assemble"
    /\ LET outs == <<mint_dataset_id(Get("name"), Get("sfbProject")),
                     process_license(Get("license")),
                     process_doi(Get("doi")),
                     process_authors(Get("authors")),
                     process_keywords(Get("keywords")),
                     process_funding(Get("funding"), GrantLut),
                     process_publications(Get("publications"), responses),
                     process_arc(Get("sfbDataController"))>>
           r == ListOfOutcomes(outs)
       IN IF r.kind = "raise"
          THEN ScriptRaises(r.exc) /\ UNCHANGED meta_item
          ELSE /\ meta_item' =
                    Dict(get_metadata_item(<<"d", "a", "t", "a", "s", "e", "t">>, r.value.v[1], Get("version")).v
                         @@ [name |-> Get("title"),
                             license |-> r.value.v[2],
                             description |-> Get("description"),
                             doi |-> r.value.v[3],
                             authors |-> r.value.v[4],
                             keywords |-> r.value.v[5],
                             funding |-> r.value.v[6],
                             publications |-> r.value.v[7],
                             access_request_contact |-> r.value.v[8]])
               /\ pc' = "additional_display"
               /\ UNCHANGED raised
    /\ UNCHANGED <<minted, calls, fn, arg, out, args, compacted, responses,
                   is_tabby_self, cat_file_listing, catalog>>

\* the @context of sfb_additional_content, lines 468-475
SfbContext ==
    Dict(("homepage" :> Str(<<"h", "t", "t", "p", "s", ":", "/", "/", "s", "c", "h", "e", "m", "a", ".", "o", "r", "g", "/", "m", "a", "i", "n", "E", "n", "t", "i", "t", "y", "O", "f", "P", "a", "g", "e">>))
         @@ ("data controller" :> Str(<<"h", "t", "t", "p", "s", ":", "/", "/", "w", "3", "i", "d", ".", "o", "r", "g", "/", "d", "p", "v", "#", "h", "a", "s", "D", "a", "t", "a", "C", "o", "n", "t", "r", "o", "l", "l", "e", "r">>))
         @@ ("sample (organism)" :>
                Str(<<"h", "t", "t", "p", "s", ":", "/", "/", "o", "p", "e", "n", "m", "i", "n", "d", "s", ".", "e", "b", "r", "a", "i", "n", "s", ".", "e", "u", "/", "c", "o", "n", "t", "r", "o", "l", "l", "e", "d", "T", "e", "r", "m", "s", "/", "S", "p", "e", "c", "i", "e", "s">>))
         @@ ("sample (organism part)" :>
                Str(<<"h", "t", "t", "p", "s", ":", "/", "/", "o", "p", "e", "n", "m", "i", "n", "d", "s", ".", "e", "b", "r", "a", "i", "n", "s", ".", "e", "u", "/", "c", "o", "n", "t", "r", "o", "l", "l", "e", "d", "T", "e", "r", "m", "s", "/", "U", "B", "E", "R", "O", "N", "P", "a", "r", "c", "e", "l", "l", "a", "t", "i", "o", "n">>))
         @@ ("CRC project" :> Str(<<"h", "t", "t", "p", "s", ":", "/", "/", "s", "c", "h", "e", "m", "a", ".", "o", "r", "g", "/", "R", "e", "s", "e", "a", "r", "c", "h", "P", "r", "o", "j", "e", "c", "t">>))
         @@ ("used for" :> Str(<<"h", "t", "t", "p", ":", "/", "/", "w", "w", "w", ".", "w", "3", ".", "o", "r", "g", "/", "n", "s", "/", "p", "r", "o", "v", "#", "h", "a", "d", "U", "s", "a", "g", "e">>)))

\* lines 467-497: the additional display, its content without None
AdditionalDisplay ==
    /\ pc = "additional_display"
    /\ LET outs == <<process_ols_term(Get("sfbSampleOrganism"), "repr_ncbitaxon",
                                      SessionOf(responses.ols)),
                     process_ols_term(Get("sfbSamplePart"), "repr_uberon",
                                      SessionOf(responses.ols)),
                     process_homepage(Get("sfbHomepage")),
                     process_data_controller(Get("sfbDataController")),
                     process_used_for(Get("sfbUsedFor"))>>
           r == ListOfOutcomes(outs)
           sfb_additional_content ==
               ("@context" :> SfbContext)
               @@ ("sample (organism)" :> r.value.v[1])
               @@ ("sample (organism part)" :> r.value.v[2])
               @@ ("homepage" :> r.value.v[3])
               @@ ("data controller" :> r.value.v[4])
               @@ ("CRC project" :> Get("sfbProject"))
               @@ ("used for" :> r.value.v[5])
       IN IF r.kind = "raise"
          THEN ScriptRaises(r.exc) /\ UNCHANGED meta_item
          ELSE /\ meta_item' =
                    Dict(DictSet(meta_item.v, "additional_display",
                        List(<<Dict([name |-> Str(<<"S", "F", "B", "1", "4", "5", "1">>),
                                     icon |-> Str(<<"f", "a", "-", "s", "o", "l", "i", "d", " ", "f", "a", "-", "f", "l", "a", "s", "k">>),
                                     content |-> Dict(StripNone(sfb_additional_content))])>>)))
               /\ pc' = "self_description"
               /\ UNCHANGED raised
    /\ UNCHANGED <<minted, calls, fn, arg, out, args, compacted, responses,
                   is_tabby_self, cat_file_listing, catalog>>

\* lines 499-510: a self-description takes id and version from the dataset
SelfDescription ==
    /\ pc = "self_description"
    /\ IF IsSelfPath(args.tabby_path)
       THEN /\ meta_item' =
                 Dict(DictSet(DictSet(meta_item.v, "dataset_id", Str(<<"d", "s", ".", "i", "d">>)),
                              "dataset_version", Str(<<"h", "e", "x", "s", "h", "a">>)))
            /\ is_tabby_self' = TRUE
       ELSE UNCHANGED <<meta_item, is_tabby_self>>
    /\ pc' = "clone_url"
    /\ UNCHANGED <<minted, calls, fn, arg, out, args, compacted, responses,
                   cat_file_listing, catalog, raised>>

\* lines 516-517: a homepage that can serve as clone URL
CloneUrl ==
    /\ pc = "clone_url"
    /\ LET clone_hp == process_homepage_as_url(Get("sfbHomepage"))
       IN IF clone_hp.kind = "raise"
          THEN ScriptRaises(clone_hp.exc) /\ UNCHANGED meta_item
          ELSE /\ meta_item' = IF ~IsNone(clone_hp.value)
                               THEN Dict(DictSet(meta_item.v, "url", clone_hp.value))
                               ELSE meta_item
               /\ pc' = "strip"
               /\ UNCHANGED raised
    /\ UNCHANGED <<minted, calls, fn, arg, out, args, compacted, responses,
                   is_tabby_self, cat_file_listing, catalog>>

\* line 520: remove empty properties from the dataset metadata
RemoveEmpty ==
    /\ pc = "strip"
    /\ meta_item' = Dict(StripNone(meta_item.v))
    /\ pc' = "files"
    /\ UNCHANGED <<minted, calls, fn, arg, out, args, compacted, responses,
                   is_tabby_self, cat_file_listing, catalog, raised>>

\* lines 533-546: one metadata item per file
FileListing ==
    /\ pc = "files"
    /\ LET file_required_meta ==
               get_metadata_item(<<"f", "i", "l", "e">>, DictGet(meta_item, "dataset_id", None),
                                 DictGet(meta_item, "dataset_version", None))
           fileList == DictGet(compacted, "fileList", List(<<>>))
           r == ListOfOutcomes([i \in 1..Len(fileList.v) |-> process_file(fileList.v[i])])
       IN IF r.kind = "raise"
          THEN ScriptRaises(r.exc) /\ UNCHANGED cat_file_listing
          ELSE /\ cat_file_listing' =
                    [i \in 1..Len(fileList.v) |->
                        Dict(r.value.v[i].v @@ file_required_meta.v)]
               /\ pc' = "validate"
               /\ UNCHANGED raised
    /\ UNCHANGED <<minted, calls, fn, arg, out, args, compacted, responses,
                   meta_item, is_tabby_self, catalog>>

\* dsid, dsver of lines 561-562
dsid == meta_item.v["dataset_id"]
dsver == meta_item.v["dataset_version"]

\* lines 561-562 with a dataset_id or dataset_version that was removed
MissingIdOrVersion ==
    /\ pc = "validate"
    /\ {"dataset_id", "dataset_version"} \ DOMAIN meta_item.v # {}
    /\ ScriptRaises("KeyError")
    /\ UNCHANGED <<minted, calls, fn, arg, out, args, compacted, responses,
                   meta_item, is_tabby_self, cat_file_listing, catalog>>

\* line 567: catalog_validate accepts the item
Validate ==
    /\ pc = "validate"
    /\ {"dataset_id", "dataset_version"} \subseteq DOMAIN meta_item.v
    /\ catalog' = Append(catalog, [op |-> "catalog_validate",
                                   metadata |-> json_dumps(meta_item)])
    /\ pc' = "remove"
    /\ UNCHANGED <<minted, calls, fn, arg, out, args, compacted, responses,
                   meta_item, is_tabby_self, cat_file_listing, raised>>

\* line 567 with the rejection passed over: the script goes on
ValidateFails_continue ==
    /\ pc = "validate"
    /\ {"dataset_id", "dataset_version"} \subseteq DOMAIN meta_item.v
    /\ catalog' = Append(catalog, [op |-> "catalog_validate",
                                   metadata |-> json_dumps(meta_item),
                                   error |-> "ValidationError"])
    /\ pc' = "remove"
    /\ UNCHANGED <<minted, calls, fn, arg, out, args, compacted, responses,
                   meta_item, is_tabby_self, cat_file_listing, raised>>

\* line 567: catalog_validate rejects the item
ValidateFails ==
    /\ pc = "validate"
    /\ {"dataset_id", "dataset_version"} \subseteq DOMAIN meta_item.v
    /\ catalog' = Append(catalog, [op |-> "catalog_validate",
                                   metadata |-> json_dumps(meta_item),
                                   error |-> "ValidationError"])
    /\ ScriptRaises("ValidationError")
    /\ UNCHANGED <<minted, calls, fn, arg, out, args, compacted, responses,
                   meta_item, is_tabby_self, cat_file_listing>>

\* catalog_remove with an except clause that does not match the
\* IncompleteResultsError raised
RemoveFirst_uncaught(incomplete) ==
    /\ pc = "remove"
    /\ args.remove_first /\ ~is_tabby_self
    /\ catalog' = Append(catalog, [op |-> "catalog_remove", dataset_id |-> dsid,
                                   dataset_version |-> dsver,
                                   incomplete |-> incomplete])
    /\ IF incomplete THEN ScriptRaises("IncompleteResultsError")
       ELSE pc' = "add" /\ UNCHANGED raised
    /\ UNCHANGED <<minted, calls, fn, arg, out, args, compacted, responses,
                   meta_item, is_tabby_self, cat_file_listing>>

\* lines 571-581: catalog_remove, whose IncompleteResultsError (incomplete
\* TRUE) is passed over
RemoveFirst(incomplete) ==
    /\ pc = "remove"
    /\ args.remove_first /\ ~is_tabby_self
    /\ catalog' = Append(catalog, [op |-> "catalog_remove", dataset_id |-> dsid,
                                   dataset_version |-> dsver,
                                   incomplete |-> incomplete])
    /\ pc' = "add"
    /\ UNCHANGED <<minted, calls, fn, arg, out, args, compacted, responses,
                   meta_item, is_tabby_self, cat_file_listing, raised>>

\* lines 573-579: catalog_remove raises an error that the except clause of
\* line 580 does not name
RemoveFirstFails ==
    /\ pc = "remove"
    /\ args.remove_first /\ ~is_tabby_self
    /\ catalog' = Append(catalog, [op |-> "catalog_remove", dataset_id |-> dsid,
                                   dataset_version |-> dsver,
                                   incomplete |-> FALSE,
                                   error |-> "ValueError"])
    /\ ScriptRaises("ValueError")
    /\ UNCHANGED <<minted, calls, fn, arg, out, args, compacted, responses,
                   meta_item, is_tabby_self, cat_file_listing>>

\* line 571, the condition false
NoRemove ==
    /\ pc = "remove"
    /\ ~(args.remove_first /\ ~is_tabby_self)
    /\ pc' = "add"
    /\ UNCHANGED <<minted, calls, fn, arg, out, args, compacted, responses,
                   meta_item, is_tabby_self, cat_file_listing, catalog, raised>>

\* lines 584-588: add dataset metadata to the catalog
AddDataset ==
    /\ pc = "add"
    /\ catalog' = Append(catalog, [op |-> "catalog_add",
                                   metadata |-> json_dumps(meta_item)])
    /\ pc' = "add_files"
    /\ UNCHANGED <<minted, calls, fn, arg, out, args, compacted, responses,
                   meta_item, is_tabby_self, cat_file_listing, raised>>

\* lines 584-588: catalog_add of the dataset metadata raises
AddDatasetFails ==
    /\ pc = "add"
    /\ catalog' = Append(catalog, [op |-> "catalog_add",
                                   metadata |-> json_dumps(meta_item),
                                   error |-> "IncompleteResultsError"])
    /\ ScriptRaises("IncompleteResultsError")
    /\ UNCHANGED <<minted, calls, fn, arg, out, args, compacted, responses,
                   meta_item, is_tabby_self, cat_file_listing>>

\* lines 591-596: add the file listing to the catalog
AddFiles ==
    /\ pc = "add_files"
    /\ catalog' = catalog \o [i \in 1..Len(cat_file_listing) |->
                                [op |-> "catalog_add",
                                 metadata |-> json_dumps(cat_file_listing[i])]]
    /\ pc' = "set"
    /\ UNCHANGED <<minted, calls, fn, arg, out, args, compacted, responses,
                   meta_item, is_tabby_self, cat_file_listing, raised>>

\* lines 591-596: catalog_add of the k-th file raises
AddFilesFails(k) ==
    /\ pc = "add_files"
    /\ k \in 1..Len(cat_file_listing)
    /\ catalog' = catalog \o [i \in 1..k |->
                                IF i < k
                                THEN [op |-> "catalog_add",
                                      metadata |-> json_dumps(cat_file_listing[i])]
                                ELSE [op |-> "catalog_add",
                                      metadata |-> json_dumps(cat_file_listing[i]),
                                      error |-> "IncompleteResultsError"]]
    /\ ScriptRaises("IncompleteResultsError")
    /\ UNCHANGED <<minted, calls, fn, arg, out, args, compacted, responses,
                   meta_item, is_tabby_self, cat_file_listing>>

\* lines 599-606: set the catalog superdataset
SetSuper ==
    /\ pc = "set"
    /\ args.set_as_super
    /\ catalog' = Append(catalog, [op |-> "catalog_set", dataset_id |-> dsid,
                                   dataset_version |-> dsver])
    /\ pc' = "done"
    /\ UNCHANGED <<minted, calls, fn, arg, out, args, compacted, responses,
                   meta_item, is_tabby_self, cat_file_listing, raised>>

\* lines 599-606: catalog_set raises
SetSuperFails ==
    /\ pc = "set"
    /\ args.set_as_super
    /\ catalog' = Append(catalog, [op |-> "catalog_set", dataset_id |-> dsid,
                                   dataset_version |-> dsver,
                                   error |-> "IncompleteResultsError"])
    /\ ScriptRaises("IncompleteResultsError")
    /\ UNCHANGED <<minted, calls, fn, arg, out, args, compacted, responses,
                   meta_item, is_tabby_self, cat_file_listing>>

\* line 599, the condition false
NoSetSuper ==
    /\ pc = "set"
    /\ ~args.set_as_super
    /\ pc' = "done"
    /\ UNCHANGED <<minted, calls, fn, arg, out, args, compacted, responses,
                   meta_item, is_tabby_self, cat_file_listing, catalog, raised>>

\* lines 410-437: the command line parsed, the record loaded and compacted
InitScript ==
    /\ minted = NoCall /\ calls = 0 /\ IdleCall
    /\ pc = "assemble"
    /\ args \in Args
    /\ compacted \in Records
    /\ responses \in Worlds
    /\ meta_item = None
    /\ is_tabby_self = FALSE
    /\ cat_file_listing = <<>>
    /\ catalog = <<>>
    /\ raised = None

NextScript ==
    \/ Assemble
    \/ AdditionalDisplay
    \/ SelfDescription
    \/ CloneUrl
    \/ RemoveEmpty
    \/ FileListing
    \/ MissingIdOrVersion
    \/ Validate
    \/ ValidateFails
    \/ \E incomplete \in BOOLEAN : RemoveFirst(incomplete)
    \/ RemoveFirstFails
    \/ NoRemove
    \/ AddDataset
    \/ AddDatasetFails
    \/ AddFiles
    \/ \E k \in 1..MaxItems : AddFilesFails(k)
    \/ SetSuper
    \/ SetSuperFails
    \/ NoSetSuper

SpecScript == InitScript /\ [][NextScript]_vars

(***************************************************************************)
(* Claims about the script.                                                *)
(***************************************************************************)
\* The key of the metadata item a field of the record is stored under
ItemKey ==
    [title |-> "name", license |-> "license", description |-> "description",
     doi |-> "doi", authors |-> "authors", keywords |-> "keywords",
     funding |-> "funding", publications |-> "publications",
     sfbDataController |-> "access_request_contact", sfbHomepage |-> "url",
     version |-> "dataset_version"]

\* The key of the additional display's content a field is stored under
ContentKey ==
    [sfbSampleOrganism |-> "sample (organism)",
     sfbSamplePart |-> "sample (organism part)",
     sfbHomepage |-> "homepage", sfbDataController |-> "data controller",
     sfbProject |-> "CRC project", sfbUsedFor |-> "used for"]

\* The fields the dataset id and version come from; every other field is
\* optional
IdentityFields == {"name", "sfbProject", "version"}

\* The dataset items handed to catalog_validate and catalog_add
SubmittedItems ==
    {catalog[i].metadata.of : i \in
        {j \in 1..Len(catalog) :
            /\ catalog[j].op \in {"catalog_validate", "catalog_add"}
            /\ catalog[j].metadata.of.v["type"] = Str(<<"d", "a", "t", "a", "s", "e", "t">>)}}

\* C9: the dataset item passed to catalog_validate and catalog_add has no
\* top-level None value, and the content of its additional display has
\* none; whichever optional fields the record lacks, the script reaches
\* submission, and the keys of those fields are missing from the item.
C9_AbsentFieldsLeftOut ==
    /\ \A item \in SubmittedItems :
        LET content == item.v["additional_display"].v[1].v["content"].v
            absent == (DOMAIN RecordFields) \ (DOMAIN compacted.v)
        IN /\ \A k \in DOMAIN item.v : ~IsNone(item.v[k])
           /\ \A k \in DOMAIN content : ~IsNone(content[k])
           /\ \A f \in absent \cap DOMAIN ItemKey :
                (f = "version" /\ is_tabby_self) \/ ItemKey[f] \notin DOMAIN item.v
           /\ \A f \in absent \cap DOMAIN ContentKey :
                ContentKey[f] \notin DOMAIN content
    /\ (pc = "raised" /\ IdentityFields \subseteq DOMAIN compacted.v)
            => catalog # <<>>

(***************************************************************************)
(* Claims about process_keywords, checked under SpecTransform.             *)
(***************************************************************************)
\* C11: process_keywords wraps a single string keyword into a one-element
\* list and returns a list of keywords unchanged (same elements, same
\* order); so applying it to its own result returns that result again.
C11_KeywordsList ==
    /\ (fn = "process_keywords" /\ IsStr(arg)) => out = Return(List(<<arg>>))
    /\ (fn = "process_keywords" /\ IsList(arg)) => out = Return(arg)
    /\ fn = "process_keywords again" => out = Return(arg)

\* C11 witness: the second application, on a list of two different
\* keywords
C11_Witness ==
    /\ fn = "process_keywords again"
    /\ IsList(arg)
    /\ Len(arg.v) = 2
    /\ arg.v[1] # arg.v[2]
    /\ out = Return(arg)

(***************************************************************************)
(* mock_dataset.py, the script: a mock entry put into the catalog.         *)
(***************************************************************************)
DSID == Str(<<"1", "2", "3", "4">>)
DSVER == Str(<<"l", "a", "t", "e", "s", "t">>)

\* html.unescape, on the one character reference the script has; the
\* element "U+2014" stands for the em dash
html_unescape(s) == Replace(s, <<"&", "m", "d", "a", "s", "h", ";">>, <<"U+2014">>)

\* lines 17-30
MockItem ==
    Dict([type |-> Str(<<"d", "a", "t", "a", "s", "e", "t">>),
          dataset_id |-> DSID,
          dataset_version |-> DSVER,
          name |-> Str(<<"T", "e", "s", "t", " ", "d", "a", "t", "a", "s", "e", "t">>),
          license |->
              Dict([name |-> Str(html_unescape(<<"C", "r", "e", "a", "t", "i", "v", "e", " ", "C", "o", "m", "m", "o", "n", "s", " ", "&", "m", "d", "a", "s", "h", ";", " ", "C", "C", "0", " ", "1", ".", "0", " ", "U", "n", "i", "v", "e", "r", "s", "a", "l">>)),
                    url |-> Str(<<"h", "t", "t", "p", "s", ":", "/", "/", "c", "r", "e", "a", "t", "i", "v", "e", "c", "o", "m", "m", "o", "n", "s", ".", "o", "r", "g", "/", "p", "u", "b", "l", "i", "c", "d", "o", "m", "a", "i", "n", "/", "z", "e", "r", "o", "/", "1", ".", "0", "/">>)])])

\* line 42: catalog_validate accepts the item
MockValidate ==
    /\ pc = "mock_validate"
    /\ catalog' = Append(catalog, [op |-> "catalog_validate",
                                   metadata |-> json_dumps(meta_item)])
    /\ pc' = "mock_remove"
    /\ UNCHANGED <<minted, calls, fn, arg, out, args, compacted, responses,
                   meta_item, is_tabby_self, cat_file_listing, raised>>

\* line 42: catalog_validate rejects the item
MockValidateFails ==
    /\ pc = "mock_validate"
    /\ catalog' = Append(catalog, [op |-> "catalog_validate",
                                   metadata |-> json_dumps(meta_item),
                                   error |-> "ValidationError"])
    /\ ScriptRaises("ValidationError")
    /\ UNCHANGED <<minted, calls, fn, arg, out, args, compacted, responses,
                   meta_item, is_tabby_self, cat_file_listing>>

\* lines 44-53: catalog_remove, whose IncompleteResultsError is passed over
MockRemove(incomplete) ==
    /\ pc = "mock_remove"
    /\ catalog' = Append(catalog, [op |-> "catalog_remove", dataset_id |-> DSID,
                                   dataset_version |-> DSVER,
                                   incomplete |-> incomplete])
    /\ pc' = "mock_add"
    /\ UNCHANGED <<minted, calls, fn, arg, out, args, compacted, responses,
                   meta_item, is_tabby_self, cat_file_listing, raised>>

\* line 55
MockAdd ==
    /\ pc = "mock_add"
    /\ catalog' = Append(catalog, [op |-> "catalog_add",
                                   metadata |-> json_dumps(meta_item)])
    /\ pc' = "mock_set"
    /\ UNCHANGED <<minted, calls, fn, arg, out, args, compacted, responses,
                   meta_item, is_tabby_self, cat_file_listing, raised>>

\* lines 57-66: catalog_set, whose IncompleteResultsError is passed over
MockSet(incomplete) ==
    /\ pc = "mock_set"
    /\ catalog' = Append(catalog, [op |-> "catalog_set", dataset_id |-> DSID,
                                   dataset_version |-> DSVER,
                                   incomplete |-> incomplete])
    /\ pc' = "mock_done"
    /\ UNCHANGED <<minted, calls, fn, arg, out, args, compacted, responses,
                   meta_item, is_tabby_self, cat_file_listing, raised>>

\* lines 13-32: the item built, nothing done to the catalog yet
InitMock ==
    /\ minted = NoCall /\ calls = 0 /\ IdleCall
    /\ pc = "mock_validate"
    /\ args = None
    /\ compacted = None
    /\ responses = None
    /\ meta_item = MockItem
    /\ is_tabby_self = FALSE
    /\ cat_file_listing = <<>>
    /\ catalog = <<>>
    /\ raised = None

\* A run of load_tabby.py or of mock_dataset.py
InitCatalog == InitScript \/ InitMock

NextCatalog ==
    \/ Assemble
    \/ AdditionalDisplay
    \/ SelfDescription
    \/ CloneUrl
    \/ RemoveEmpty
    \/ FileListing
    \/ MissingIdOrVersion
    \/ Validate
    \/ ValidateFails
    \/ \E incomplete \in BOOLEAN : RemoveFirst(incomplete)
    \/ RemoveFirstFails
    \/ NoRemove
    \/ AddDataset
    \/ AddDatasetFails
    \/ AddFiles
    \/ \E k \in 1..MaxItems : AddFilesFails(k)
    \/ SetSuper
    \/ SetSuperFails
    \/ NoSetSuper
    \/ MockValidate
    \/ MockValidateFails
    \/ \E incomplete \in BOOLEAN : MockRemove(incomplete)
    \/ MockAdd
    \/ \E incomplete \in BOOLEAN : MockSet(incomplete)

SpecCatalog == InitCatalog /\ [][NextCatalog]_vars

\* The positions of the catalog operations at which catalog_remove raised
\* IncompleteResultsError
IncompleteRemoves ==
    {i \in 1..Len(catalog) :
        catalog[i].op = "catalog_remove" /\ catalog[i].incomplete}

\* the catalog operation raised an error that ended the script
Failed(entry) == "error" \in DOMAIN entry

\* catalog_add of item is among the operations made after position i
AddedAfter(i, item) ==
    \E j \in (i + 1)..Len(catalog) :
        catalog[j] = [op |-> "catalog_add", metadata |-> json_dumps(item)]

\* C12: when catalog_remove raises IncompleteResultsError in the
\* remove-if-exists step, the exception is swallowed: the script is not
\* ended by it, its next statement is the catalog_add of the dataset item,
\* and past that statement the dataset item (and past the loop of
\* load_tabby.py every file item) has been added to the catalog.
C12_IncompleteRemoveSwallowed ==
    \A i \in IncompleteRemoves :
        /\ pc = "raised" => \E j \in (i + 1)..Len(catalog) : Failed(catalog[j])
        /\ pc \in {"add", "add_files", "set", "done", "raised",
                   "mock_add", "mock_set", "mock_done"}
        /\ pc \in {"add_files", "set", "done", "mock_set", "mock_done"}
                => AddedAfter(i, meta_item)
        /\ pc \in {"set", "done"}
                => \A f \in 1..Len(cat_file_listing) : AddedAfter(i, cat_file_listing[f])

\* C12 witness: a run of load_tabby.py with --remove-first that ended after
\* an IncompleteResultsError, the record listing a file
C12_Witness ==
    /\ pc = "done"
    /\ IncompleteRemoves # {}
    /\ Len(cat_file_listing) > 0
    /\ args.remove_first

(***************************************************************************)
(* Claims about process_funding, checked under SpecTransform.              *)
(***************************************************************************)
\* C13: every element of the list process_funding returns has "@type"
\* equal to "https://schema.org/Grant", whether the input is a dict or a
\* list, its entries have an "@type" or not, and the funder is DFG or not.
C13_EveryGrantTyped ==
    (fn = "process_funding" /\ out.kind = "return" /\ IsList(out.value))
        => \A i \in 1..Len(out.value.v) :
                DictGet(out.value.v[i], "@type", None) = Str(<<"h", "t", "t", "p", "s", ":", "/", "/", "s", "c", "h", "e", "m", "a", ".", "o", "r", "g", "/", "G", "r", "a", "n", "t">>)

\* An entry of SFB1451: funder "DFG" and identifier "431549029-<sub>"
IsSfbEntry(f) ==
    /\ DictGet(f, "funder", None) = Str(<<"D", "F", "G">>)
    /\ IsStr(DictGet(f, "identifier", None))
    /\ StartsWith(DictGet(f, "identifier", None).v, <<"4", "3", "1", "5", "4", "9", "0", "2", "9", "-">>)

\* <sub> of an entry of SFB1451, in upper case
SfbSub(f) ==
    LET identifier == DictGet(f, "identifier", None).v
    IN Upper(SubSeq(identifier, Len(<<"4", "3", "1", "5", "4", "9", "0", "2", "9", "-">>) + 1, Len(identifier)))

\* The number of items the entries before entry i yield
RECURSIVE ItemsBefore(_, _, _)
ItemsBefore(l, lookup, i) ==
    IF i <= 1 THEN 0
    ELSE ItemsBefore(l, lookup, i - 1)
            + (IF IsSfbEntry(l[i - 1]) /\ SfbSub(l[i - 1]) \in DOMAIN lookup
               THEN 2 ELSE 1)

\* C14: process_funding always returns a list; an entry of SFB1451 whose
\* <sub> is in the lookup table yields the SFB1451 main grant and then the
\* project grant, with name and identifier from the table; one whose <sub>
\* is not yields the main grant only; every other entry yields one item.
C14_ItemsPerEntry ==
    fn = "process_funding" =>
        /\ out.kind = "return"
        /\ IsList(out.value)
        /\ LET l == IF IsDict(arg.funding) THEN <<arg.funding>> ELSE arg.funding.v
               items == out.value.v
           IN /\ Len(items) = ItemsBefore(l, arg.lookup, Len(l) + 1)
              /\ \A i \in 1..Len(l) :
                    LET at == ItemsBefore(l, arg.lookup, i) + 1
                    IN IsSfbEntry(l[i]) =>
                        /\ items[at] = SfbMainGrant
                        /\ SfbSub(l[i]) \in DOMAIN arg.lookup =>
                            /\ DictGet(items[at + 1], "name", None)
                                = arg.lookup[SfbSub(l[i])].v["name"]
                            /\ DictGet(items[at + 1], "identifier", None)
                                = arg.lookup[SfbSub(l[i])].v["identifier"]

(***************************************************************************)
(* process_ols_term on its own: a term, a filter and a session in which    *)
(* OLS answers each term separately.  OLS answers 200 with a JSON object;  *)
(* any other status may carry any body.                                    *)
(***************************************************************************)
OlsTerms == {Str(t) : t \in OlsTermKeys}

OlsTermInputs ==
    {None} \cup OlsTerms
    \cup {List(l) : l \in UNION {[1..n -> OlsTerms] : n \in 0..MaxItems}}

OlsAnswers ==
    {Response(200, JsonBody(Dict([label |-> Str(<<"M", "u", "s", " ", "m", "u", "s", "c", "u", "l", "u", "s">>),
                                  iri |-> Str(<<"h", "t", "t", "p", ":", "/", "/", "p", "u", "r", "l", ".", "o", "b", "o", "l", "i", "b", "r", "a", "r", "y", ".", "o", "r", "g", "/", "o", "b", "o", "/", "N", "C", "B", "I", "T", "a", "x", "o", "n", "_", "1", "0", "0", "9", "0">>)]))),
     Response(200, JsonBody(Dict([label |-> Str(<<"t", "a", "i", "l">>),
                                  iri |-> Str(<<"h", "t", "t", "p", ":", "/", "/", "p", "u", "r", "l", ".", "o", "b", "o", "l", "i", "b", "r", "a", "r", "y", ".", "o", "r", "g", "/", "o", "b", "o", "/", "U", "B", "E", "R", "O", "N", "_", "0", "0", "0", "2", "4", "1", "5">>)]))),
     Response(201, JsonBody(Dict([label |-> Str(<<"t", "a", "i", "l">>)]))),
     Response(404, TextBody)}

ProcessOlsTerm(term, filter_func, session) ==
    /\ fn = "none"
    /\ fn' = "process_ols_term"
    /\ arg' = [term |-> term, filter_func |-> filter_func, session |-> session]
    /\ out' = process_ols_term(term, filter_func, session)
    /\ UNCHANGED <<minted, calls, scriptVars>>

InitOls == minted = NoCall /\ calls = 0 /\ IdleCall /\ NoScript

NextOls ==
    \E term \in OlsTermInputs, filter_func \in {"repr_ncbitaxon", "repr_uberon"},
       session \in [OlsTermKeys -> OlsAnswers] :
        ProcessOlsTerm(term, filter_func, session)

SpecOls == InitOls /\ [][NextOls]_vars

\* what the result holds for term t: the term itself when its lookup failed,
\* else the representation built from the answer to that term
C15_Represents(t, v) ==
    IF arg.session[t.v].status # 200 THEN v = t
    ELSE /\ IsDict(v)
         /\ DictGet(v, "name", None) = DictGet(arg.session[t.v].body.value, "label", None)
         /\ DictGet(v, "preferredOntologyIdentifier", None)
                = DictGet(arg.session[t.v].body.value, "iri", None)

\* C15: process_ols_term keeps the shape of its input: None gives None, a
\* string gives one representation, a list gives a list of the same length in
\* the same order; a term whose lookup answers a status other than 200 stays
\* the original string.
C15_ShapePreserved ==
    fn = "process_ols_term" =>
        /\ IsNone(arg.term) => out = Return(None)
        /\ IsStr(arg.term) => out.kind = "return" /\ C15_Represents(arg.term, out.value)
        /\ IsList(arg.term) =>
               /\ out.kind = "return"
               /\ IsList(out.value)
               /\ Len(out.value.v) = Len(arg.term.v)
               /\ \A i \in 1..Len(arg.term.v) :
                      C15_Represents(arg.term.v[i], out.value.v[i])

C15_Witness ==
    /\ fn = "process_ols_term"
    /\ IsList(arg.term)
    /\ Len(arg.term.v) = 2
    /\ arg.term.v[1] # arg.term.v[2]
    /\ arg.session[arg.term.v[1].v].status = 201
    /\ arg.session[arg.term.v[2].v].status = 200
    /\ out.kind = "return"
    /\ out.value.v[1] = arg.term.v[1]
    /\ IsDict(out.value.v[2])

\* the locations the docstring of process_homepage_as_url names
C16_Locations == {<<"g", "i", "n", ".", "g", "-", "n", "o", "d", "e", ".", "o", "r", "g">>, <<"g", "i", "t", "h", "u", "b", ".", "c", "o", "m">>, <<"j", "u", "g", "i", "t", ".", "f", "z", "-", "j", "u", "e", "l", "i", "c", "h", ".", "d", "e">>}

C16_PointsThere(hp) ==
    /\ urlparse(hp.v).kind = "return"
    /\ urlparse(hp.v).value.netloc \in C16_Locations
    /\ urlparse(hp.v).value.path # <<>>

\* C16: process_homepage_as_url returns None or a non-empty list holding, in
\* input order, exactly the homepages that point to GIN, GitHub or JuGit with
\* a non-empty path; a single string is handled as a one-element list.
C16_CloneUrlsOnly ==
    fn = "process_homepage_as_url" =>
        LET l == IF IsNone(arg) THEN <<>>
                 ELSE IF IsStr(arg) THEN <<arg>> ELSE arg.v
            url == SelectSeq(l, C16_PointsThere)
        IN \/ out = Return(None)
           \/ Len(url) > 0 /\ out = Return(List(url))

(***************************************************************************)
(* load_subdatasets.py.                                                    *)
(***************************************************************************)
MaxDepth == 4

get_tabby_subdataset_path(tabby_file_path, ds_root_path) ==
    LET relpath == relative_to(parent(tabby_file_path), ds_root_path)
    IN IF relpath.kind = "raise" THEN relpath
       ELSE IF match(relpath.value, TabbyDir \o <<<<"*">>>>)
       THEN relative_to(relpath.value, TabbyDir)
       ELSE relpath

\* fnmatch of a file name against *<infix>*.tsv
NameMatches(name, infix) ==
    \E i \in 1..Len(name) :
        /\ i + Len(infix) - 1 <= Len(name) - 4
        /\ SubSeq(name, i, i + Len(infix) - 1) = infix
        /\ SubSeq(name, Len(name) - 3, Len(name)) = <<".", "t", "s", "v">>

\* list_tabby_ds_files(ds, anywhere), given the files of the dataset as
\* paths relative to its root
list_tabby_ds_files(pathobj, files, anywhere) ==
    IF ~anywhere
    THEN {pathobj \o f : f \in {g \in files : /\ StartsWith(g, TabbyDir)
                                             /\ NameMatches(g[Len(g)], <<"d", "a", "t", "a", "s", "e", "t">>)}}
    ELSE {pathobj \o f : f \in {g \in files : NameMatches(g[Len(g)], <<"d", "a", "t", "a", "s", "e", "t", "@", "t", "b", "y">>)}}

\* The dataset of the model: its root and the files it may hold.
DsRoot == <<<<"/">>, <<"d", "s">>>>
DirParts == {<<".", "d", "a", "t", "a", "l", "a", "d">>, <<"t", "a", "b", "b", "y">>, <<"a">>, <<"b">>}
FileNames == {<<"d", "a", "t", "a", "s", "e", "t", "@", "t", "b", "y", "-", "d", "s", "1", ".", "t", "s", "v">>, <<"x", "_", "d", "a", "t", "a", "s", "e", "t", ".", "t", "s", "v">>, <<"a", "u", "t", "h", "o", "r", "s", "@", "t", "b", "y", "-", "d", "s", "1", ".", "t", "s", "v">>}
DsFiles == {d \o <<n>> : d \in SeqsOf(DirParts, 0, MaxDepth), n \in FileNames}

\* subdataset_item: the path of the subdataset a tabby file describes
SubdatasetPath(tabby_path, pathobj) ==
    /\ fn = "none"
    /\ fn' = "get_tabby_subdataset_path"
    /\ arg' = [tabby_file_path |-> tabby_path, ds_root_path |-> pathobj]
    /\ out' = get_tabby_subdataset_path(tabby_path, pathobj)
    /\ UNCHANGED <<minted, calls, scriptVars>>

InitSubdatasets == minted = NoCall /\ calls = 0 /\ IdleCall /\ NoScript

NextSubdatasets ==
    \E anywhere \in BOOLEAN :
        \E tabby_path \in list_tabby_ds_files(DsRoot, DsFiles, anywhere) :
            SubdatasetPath(tabby_path, DsRoot)

SpecSubdatasets == InitSubdatasets /\ [][NextSubdatasets]_vars

\* the directory of the tabby file, relative to the dataset root
C17_Dir == SubSeq(arg.tabby_file_path, Len(arg.ds_root_path) + 1,
                  Len(arg.tabby_file_path) - 1)

\* C17: get_tabby_subdataset_path returns the parent directory of the tabby
\* file relative to the dataset root, and for a tabby file in a directory
\* below .datalad/tabby, at any depth, the path relative to .datalad/tabby;
\* it never raises.  (For a file in .datalad/tabby itself either path is
\* accepted.)
C17_RelativeToTabbyDir ==
    fn = "get_tabby_subdataset_path" =>
        IF StartsWith(C17_Dir, TabbyDir) /\ Len(C17_Dir) > Len(TabbyDir)
        THEN out = Return(SubSeq(C17_Dir, 3, Len(C17_Dir)))
        ELSE IF C17_Dir = TabbyDir
        THEN out \in {Return(<<>>), Return(C17_Dir)}
        ELSE out = Return(C17_Dir)

\* the directory and the file name of the tabby file the script is run on
C18_Dir == SubSeq(args.tabby_path, 1, Len(args.tabby_path) - 1)
C18_File == args.tabby_path[Len(args.tabby_path)]

C18_DirEndsWith(parts) ==
    /\ Len(parts) <= Len(C18_Dir)
    /\ SubSeq(C18_Dir, Len(C18_Dir) - Len(parts) + 1, Len(C18_Dir)) = parts

\* the tabby path is that of a self-description
C18_SelfDescription ==
    \/ C18_DirEndsWith(<<<<".", "d", "a", "t", "a", "l", "a", "d">>, <<"t", "a", "b", "b", "y">>, <<"s", "e", "l", "f">>>>)
    \/ /\ C18_DirEndsWith(<<<<".", "d", "a", "t", "a", "l", "a", "d">>, <<"t", "a", "b", "b", "y">>>>)
       /\ SubSeq(C18_File, 1, 4) = <<"s", "e", "l", "f">>

\* C18: catalog_remove is called only when --remove-first was given and the
\* tabby path is not that of a self-description; a self-description run never
\* calls it.
C18_RemoveOnlyWhenAsked ==
    \A i \in 1..Len(catalog) :
        catalog[i].op = "catalog_remove" =>
            args.remove_first /\ ~C18_SelfDescription

C18_Witness ==
    /\ pc = "done"
    /\ \E i \in 1..Len(catalog) : catalog[i].op = "catalog_remove"
    /\ C18_DirEndsWith(<<<<".", "d", "a", "t", "a", "l", "a", "d">>, <<"t", "a", "b", "b", "y">>>>)
    /\ args.remove_first

(***************************************************************************)
(* process_file on its own: the entries of fileList, as the compaction     *)
(* gives them (path, name and contentbytesize as typed values).            *)
(***************************************************************************)
TypedValue(v) == Dict("@value" :> v)

FileInfos ==
    {MkDict(<<<<"path", p>>, <<"name", n>>, <<"contentbytesize", c>>,
              <<"url", u>>, <<"md5sum", m>>>>) :
        p \in {Absent, TypedValue(Str(<<"a", ".", "t", "x", "t">>)), TypedValue(Str(<<"d", "/", "b", ".", "t", "x", "t">>))},
        n \in {Absent, TypedValue(Str(<<"c", ".", "t", "x", "t">>))},
        c \in {Absent, TypedValue(Str(<<"1", "2">>)), TypedValue(Str(<<"0">>)),
               TypedValue(PyInt(12)), TypedValue(PyInt(0))},
        u \in {Absent, Str(<<"h", "t", "t", "p", "s", ":", "/", "/", "e", "x", "a", "m", "p", "l", "e", ".", "o", "r", "g", "/", "a", ".", "t", "x", "t">>)},
        m \in {Absent, Str(<<"d", "4", "1", "d", "8", "c", "d", "9">>)}}

ProcessFile(f) ==
    /\ fn = "none"
    /\ fn' = "process_file"
    /\ arg' = f
    /\ out' = process_file(f)
    /\ UNCHANGED <<minted, calls, scriptVars>>

InitFiles == minted = NoCall /\ calls = 0 /\ IdleCall /\ NoScript

NextFiles == \E f \in FileInfos : ProcessFile(f)

SpecFiles == InitFiles /\ [][NextFiles]_vars

C20_Ops(op) == {i \in 1..Len(catalog) : catalog[i].op = op}

C20_Adds == C20_Ops("catalog_add")

\* the order of the operations made so far
C20_Order ==
    /\ \A i \in 1..Len(catalog) :
           catalog[i].op \in {"catalog_remove", "catalog_add", "catalog_set"} =>
               \E j \in 1..(i - 1) :
                   /\ catalog[j].op = "catalog_validate"
                   /\ catalog[j].metadata = json_dumps(meta_item)
    /\ \A i \in C20_Ops("catalog_remove"), j \in C20_Adds : i < j
    /\ \A j \in C20_Adds :
           /\ catalog[j].metadata = json_dumps(meta_item)
                  => \A i \in C20_Adds : j <= i
           /\ catalog[j].metadata # json_dumps(meta_item)
                  => \E i \in C20_Adds :
                         i < j /\ catalog[i].metadata = json_dumps(meta_item)
    /\ \A i \in C20_Ops("catalog_set") :
           /\ args.set_as_super
           /\ i = Len(catalog)
           /\ Cardinality(C20_Adds) = 1 + Len(cat_file_listing)

\* an operation that raised is the last one made, and the script has ended
C20_RaiseEnds ==
    \A i \in 1..Len(catalog) :
        Failed(catalog[i]) => i = Len(catalog) /\ pc = "raised"

\* the operations made are never undone or reordered
C20_AppendOnly == SubSeq(catalog', 1, Len(catalog)) = catalog

\* C20: in every run of load_tabby.py catalog_validate of the dataset item
\* comes before every other catalog operation, catalog_remove before every
\* catalog_add, the add of the dataset item before that of any file item, and
\* catalog_set, made only with --set-as-super, after all adds; after an
\* operation that raised (other than the IncompleteResultsError of
\* catalog_remove, which is passed over) no operation is made.
C20_FixedOrder ==
    /\ [](C20_Order /\ C20_RaiseEnds)
    /\ [][C20_AppendOnly]_vars

C20_Witness ==
    /\ pc = "done"
    /\ Len(catalog) = 5
    /\ catalog[2].op = "catalog_remove" /\ catalog[2].incomplete
    /\ catalog[4].metadata = json_dumps(cat_file_listing[1])
    /\ catalog[5].op = "catalog_set"

====
